---- MODULE Spec2Model ----
(***************************************************************************)
(* Model of the buildscad interpreter (smurfix/buildscad): the dynamic     *)
(* environment DynEnv (variable lookup, child cache, build), the static    *)
(* environment _Env/StaticEnv/_MainEnv (declarations), and the blocks that *)
(* connect them (Statement, ParentStatement, Module, Function, Variable).  *)
(*                                                                         *)
(* Python values are encoded as records [t, s]: t is the type tag (or the  *)
(* exception class for a raised exception), s a sequence of integers: the  *)
(* number for "num", the primitives a Shape is the union of for "Shape".   *)
(***************************************************************************)
EXTENDS Integers, Sequences, FiniteSets, TLC

VARIABLES
    stat,      \* the StaticEnv objects, by id
    dyn,       \* the DynEnv objects held by the embedding program, by id
    vm,        \* the vars dicts of those DynEnv objects, by id
    built,     \* built[s][i]: how often work item i of scope s was built
    trace,     \* the work items the last operation built, in order; in the
               \* static pass, the warnings logged
    last,      \* the last operation: what was called, on what, and its result
    calls,     \* number of operations so far
    src,       \* the assignments of the source file, in source order
    kernel,    \* how the installed build123d treats None as right operand of -
    cur_env,   \* the context variable cur_env: a DynEnv, 0 while it has no value
    withs,     \* the with blocks entered and not yet left, innermost last,
               \* each with the value cur_env had before it
    main_env   \* the context variable main_env: the Env that traces, 0 while
               \* it has no value

vars == <<stat, dyn, vm, built, trace, last, calls, src, kernel, cur_env, withs,
         main_env>>

----------------------------------------------------------------------------
(* Bounds *)

MaxK == 2          \* work items of a child block
MaxCalls == 3      \* operations per behaviour
MaxAssign == 2     \* assignments lowered into a scope
MaxLookups == 2    \* variable lookups per behaviour
MaxNest == 2       \* statements wrapped around the children() call of a module body
RecursionLimit == 6 \* nested Python calls before RecursionError
MaxWith == 4       \* with blocks nested in each other
MaxStmts == 2      \* statements of a source file, and of a child block
MaxFiles == 2      \* source files that include each other
UseFiles == 3      \* source files that use each other
MaxObj == 2        \* kernel objects handed to the trace
MaxTrace == 2      \* calls of trace per behaviour
MaxSuffix == 2     \* index suffixes after a primary
MaxVol == 3        \* largest volume of a result of a test model
UseStmts == 2      \* top-level statements of such a file
MaxParams == 2     \* parameters of a module declaration
MaxArgs == 3       \* arguments of a module call
MaxVal == 3        \* largest bound of a range or vector of a for statement
MaxStep == 2       \* largest step of a range
MaxVars == 2       \* loop variables of a for statement

----------------------------------------------------------------------------
(* Values *)

V(t, s) == [t |-> t, s |-> s]
None == V("None", <<>>)
Unknown == V("_unknown", <<>>)          \* env.py: class _unknown
Working == V("_working", <<>>)          \* env.py: class _working
Absent == V("absent", <<>>)             \* key not in a dict
Num(n) == V("num", <<n>>)
Shp(s) == V("Shape", s)
Err(e) == V(e, <<>>)
Lst(l) == V("list", l)                  \* a Python list of values

\* KernelError: whatever build123d raises when it refuses an operand
ErrTags == {"KeyError", "AttributeError", "TypeError", "NameError", "IndexError",
            "RecursiveVariable", "RecursionError", "KernelError",
            "StopIteration", "ValueError", "AssertionError", "RuntimeError",
            "LookupError"}
IsErr(v) == v.t \in ErrTags

\* Shape.__add__ of the kernel: the union lists the operands left to right
ShapeAdd(a, b) == Shp(a.s \o b.s)

\* Shape.__sub__ and Shape.__and__ of the kernel, on two shapes: the operands
\* between brackets, -1 .. -3 for the difference, -4 .. -6 for the intersection
ShapeSub(a, b) == Shp(<<-1>> \o a.s \o <<-2>> \o b.s \o <<-3>>)
ShapeAnd(a, b) == Shp(<<-4>> \o a.s \o <<-5>> \o b.s \o <<-6>>)

\* Shape - None: older kernels raise, newer ones return the left operand
Kernels == {"strict", "lenient"}

\* name[0] == '$'
DollarNames == {"$x", "$fn", "$children"}
\* every name treated as dynamically scoped
AllDollar(name) == TRUE

IsDollar(name) == name \in DollarNames

----------------------------------------------------------------------------
(* Expression nodes: [k, n, v]                                              *)
(*   num  v        pr_Num                                                   *)
(*   sym  n        pr_Sym                                                   *)
(*   add  n v      addition  n + v                                          *)
(*   call n        call of the named function n without arguments           *)
(*   none          no argument list                                         *)

ENum(v) == [k |-> "num", n |-> "", v |-> v]
ESym(n) == [k |-> "sym", n |-> n, v |-> 0]
EAdd(n, v) == [k |-> "add", n |-> n, v |-> v]
ECall(n) == [k |-> "call", n |-> n, v |-> 0]
\* [lo : hi] and [lo : hi : step] as _e_pr_for2 / _e_pr_for3 read them, and the
\* vector [lo, lo + 1, .., hi]
ERange(lo, hi, step) == [k |-> "range", lo |-> lo, hi |-> hi, step |-> step]
EVec(lo, hi) == [k |-> "vec", lo |-> lo, hi |-> hi, step |-> 0]
\* name = x in an argument list (name "": a positional argument)
Argument(name, x) == [name |-> name, x |-> x]
EArgs(args) == [k |-> "args", n |-> "", v |-> 0, a |-> args]
ENone == [k |-> "none", n |-> "", v |-> 0]

(* Work items: Statement(env, body), ParentStatement(env, body, child); the *)
(* body is the mod_call node  mod(arg).                                     *)
Statement(mod, arg) == [kind |-> "Statement", mod |-> mod, arg |-> arg, child |-> 0]
ParentStatement(mod, arg, child) ==
    [kind |-> "ParentStatement", mod |-> mod, arg |-> arg, child |-> child]

----------------------------------------------------------------------------
(* Static environments (env.py: _Env, StaticEnv, SpecialEnv; main.py:       *)
(* _MainEnv).  vars, funcs and mods are the three name spaces, work the     *)
(* list of work items.  An entry of vars is the body of the Variable, of    *)
(* funcs the body of the Function (both declared in this scope), of mods    *)
(* the id of the StaticEnv that is the Module's body, or Builtin.           *)

VarNames == {"a", "b", "$x"}
FuncNames == {"f"}
ModNames == {"children", "union", "difference", "intersection", "cube", "h",
             "for", "intersection_for"}
EAbsent == [k |-> "absent", n |-> "", v |-> 0]
NoMod == 0
Builtin == -1

NoVars == [n \in VarNames |-> EAbsent]
NoFuncs == [n \in FuncNames |-> EAbsent]
NoMods == [n \in ModNames |-> NoMod]

\* Module.params, (a, k): the names without default, and the (name, default)
\* pairs in the order of the dict
NoParams == [pos |-> <<>>, kw |-> <<>>]

\* params: those of the Module whose body the scope is
StaticEnv(parent) ==
    [parent |-> parent, vars |-> NoVars, funcs |-> NoFuncs, mods |-> NoMods,
     work |-> <<>>, params |-> NoParams]

\* ids of the static scopes of the programs considered
SBuiltins == 1     \* _MainEnv.__init__: env = StaticEnv(), holds _Mods/_Fns
SMiddle == 2       \* _MainEnv.__init__: StaticEnv(env), parent of the main env
SMain == 3         \* the _MainEnv: top level of the source file
SBody == 4         \* body of module h
SChild == 5        \* child block of the top-level call of h
SNest1 == 6        \* a { } block in the body of h
SNest2 == 7        \* a { } block in the child block

\* _Env.var: the Variable a name denotes, through the parent chain;
\* NullEnv.var raises KeyError
RECURSIVE StaticVar(_, _)
StaticVar(s, name) ==
    IF s = 0 THEN [env |-> 0, body |-> EAbsent]
    ELSE IF name \in VarNames /\ stat[s].vars[name] # EAbsent
         THEN [env |-> s, body |-> stat[s].vars[name]]
         ELSE StaticVar(stat[s].parent, name)

\* _Env.func: funcs, then vars, then the parent
RECURSIVE StaticFunc(_, _)
StaticFunc(s, name) ==
    IF s = 0 THEN [env |-> 0, body |-> EAbsent]
    ELSE IF name \in FuncNames /\ stat[s].funcs[name] # EAbsent
         THEN [env |-> s, body |-> stat[s].funcs[name]]
         ELSE StaticFunc(stat[s].parent, name)

\* _Env.mod
RECURSIVE StaticMod(_, _)
StaticMod(s, name) ==
    IF s = 0 THEN NoMod
    ELSE IF name \in ModNames /\ stat[s].mods[name] # NoMod
         THEN stat[s].mods[name]
         ELSE StaticMod(stat[s].parent, name)

----------------------------------------------------------------------------
(* Dynamic environments (env.py: DynEnv).  A machine m is the heap while an *)
(* operation runs: m.dyn the DynEnv objects, m.vm the vars dicts, m.built   *)
(* and m.trace the record of which work items were built.                   *)

DynNames == VarNames \cup {"$fn"}
NoVals == [n \in DynNames |-> Absent]

\* evaluate v once and hand its value to F (a local binding)
Let(v, F(_)) == CHOOSE y \in {F(x) : x \in {v}} : TRUE

Ret(m, r) == [m |-> m, r |-> r]

\* DynEnv._token is None, or the Token of cur_env.set(self), which stands
\* for the value the variable had before
NoToken == -1

DynEnv(static, dynp, vmid, child) ==
    [static |-> static, dyn |-> dynp, vars |-> vmid, child |-> child,
     cenv |-> FALSE, cres |-> <<>>, token |-> NoToken, recurse |-> 0]

\* DynEnv.__init__; vmid = 0: a new vars dict, else the dict shared with_vars
NewDyn(m, static, dynp, vmid, child) ==
    IF vmid = 0
    THEN [m |-> [m EXCEPT !.vm = Append(@, NoVals),
                          !.dyn = Append(@, DynEnv(static, dynp, Len(m.vm) + 1, child))],
          id |-> Len(m.dyn) + 1]
    ELSE [m |-> [m EXCEPT !.dyn = Append(@, DynEnv(static, dynp, vmid, child))],
          id |-> Len(m.dyn) + 1]

GetVal(m, e, name) ==
    IF name \in DynNames THEN m.vm[m.dyn[e].vars][name] ELSE Absent
\* a SetVal that stores nothing
SetValNowhere(m, e, name, val) == m
SetVal(m, e, name, val) == [m EXCEPT !.vm[m.dyn[e].vars][name] = val]

\* a work item's build_with is entered: item i (from 1) of the work of scope s
Note(m, s, i) ==
    [m EXCEPT !.trace = Append(@, <<s, i>>), !.built[s][i] = @ + 1]

\* _Eval.eval applied to a work item (a Statement or StaticEnv, which has no
\* rule_name): the getattr raises AttributeError, and so does the handler
EvalWorkItem(m, env, item) == Ret(m, Err("AttributeError"))

\* _Mods.cube: Box(x, y, z) for a number; unpacking anything else raises
Cube(size) == IF size.t = "num" THEN Shp(<<size.s[1]>>) ELSE Err("TypeError")

\* res + r / res += r of two values
Plus(l, r) ==
    IF l.t = "num" /\ r.t = "num" THEN Num(l.s[1] + r.s[1])
    ELSE IF l.t = "Shape" /\ r.t = "Shape" THEN ShapeAdd(l, r)
    ELSE Err("TypeError")

\* DynEnv._child_env: the DynEnv(child, self) and the list of _unknown slots,
\* made on first use.  The DynEnv object itself is only ever handed to
\* EvalWorkItem, so the flag cenv stands for it.
ChildEnv(m, e) ==
    IF m.dyn[e].cenv THEN m
    ELSE [m EXCEPT !.dyn[e].cenv = TRUE,
                   !.dyn[e].cres =
                       [i \in 1..Len(stat[m.dyn[e].child].work) |-> Unknown]]

\* the slot test of one_child: len(self._child_res) <= i
PastEnd(res, i) == Len(res) <= i

\* one_child without the test of i against the length of the list
OneChildUnchecked(m, e, i) ==
    IF m.dyn[e].child = 0 THEN Ret(m, None)
    ELSE Let(ChildEnv(m, e), LAMBDA m1 :
         IF i.t # "num" THEN Ret(m1, Err("TypeError"))
         ELSE IF PastEnd(m1.dyn[e].cres, i.s[1]) THEN Ret(m1, Err("IndexError"))
         ELSE IF m1.dyn[e].cres[i.s[1] + 1] = Unknown
              THEN EvalWorkItem(m1, e, stat[m1.dyn[e].child].work[i.s[1] + 1])
              ELSE Ret(m1, m1.dyn[e].cres[i.s[1] + 1]))

\* DynEnv.one_child(i); i is None or a number >= 0
OneChild(m, e, i) ==
    IF m.dyn[e].child = 0 THEN Ret(m, None)
    ELSE Let(ChildEnv(m, e), LAMBDA m1 :
         IF i.t # "num" THEN Ret(m1, Err("TypeError"))
         ELSE IF PastEnd(m1.dyn[e].cres, i.s[1]) THEN Ret(m1, None)
         ELSE IF m1.dyn[e].cres[i.s[1] + 1] = Unknown
              THEN Let(EvalWorkItem(m1, e, stat[m1.dyn[e].child].work[i.s[1] + 1]),
                       LAMBDA ev :
                       IF IsErr(ev.r) THEN ev
                       ELSE Ret([ev.m EXCEPT !.dyn[e].cres[i.s[1] + 1] = ev.r], ev.r))
              ELSE Ret(m1, m1.dyn[e].cres[i.s[1] + 1]))

\* _Mods.children(idx=None): self.one_child(idx)
ModChildren(m, e, idx) == OneChild(m, e, idx)

RECURSIVE DynVar(_, _, _, _)
RECURSIVE EvalExpr(_, _, _, _)
RECURSIVE DynFunc(_, _, _, _)
RECURSIVE DynMod(_, _, _, _, _)
RECURSIVE ItemBuildWith(_, _, _, _)
RECURSIVE BuildFrom(_, _, _, _, _)
RECURSIVE ChildrenFrom(_, _, _, _, _)
RECURSIVE ChildUnion(_, _, _)
RECURSIVE ArgumentList(_, _, _, _, _)
RECURSIVE Difference(_, _, _)
RECURSIVE Intersection(_, _, _)

\* Variable.eval_with: DynEnv(self.env, env).eval(self.body)
VariableEvalWith(m, sv, e, f) ==
    IF f = 0 THEN Ret(m, Err("RecursionError"))
    ELSE Let(NewDyn(m, sv.env, e, 0, 0), LAMBDA nd :
             EvalExpr(nd.m, nd.id, sv.body, f - 1))

\* DynEnv.var, from the  self.vars[name] = _working  on: vdef is the Variable
\* sv when isvar, else the value val
\* DynEnv.var without the  except Exception: del self.vars[name]
VarEvalKeepsMarker(m, e, name, isvar, sv, val, f) ==
    Let(SetVal(m, e, name, Working), LAMBDA m2 :
    Let(IF isvar THEN VariableEvalWith(m2, sv, e, f) ELSE Ret(m2, val), LAMBDA ev :
        IF IsErr(ev.r) THEN ev
        ELSE Ret(SetVal(ev.m, e, name, ev.r), ev.r)))

VarEval(m, e, name, isvar, sv, val, f) ==
    Let(SetVal(m, e, name, Working), LAMBDA m2 :
    Let(IF isvar THEN VariableEvalWith(m2, sv, e, f) ELSE Ret(m2, val), LAMBDA ev :
        IF IsErr(ev.r) THEN Ret(SetVal(ev.m, e, name, Absent), ev.r)
        ELSE Ret(SetVal(ev.m, e, name, ev.r), ev.r)))

\* DynEnv.var
DynVar(m, e, name, f) ==
    IF e = 0 THEN Ret(m, Err("KeyError"))
    ELSE IF name = "$children"
    THEN Ret(m, Num(IF m.dyn[e].child = 0 THEN 0
                    ELSE Len(stat[m.dyn[e].child].work)))
    ELSE IF GetVal(m, e, name) # Absent
    THEN Ret(m, IF GetVal(m, e, name) = Working THEN Err("RecursiveVariable")
                ELSE GetVal(m, e, name))
    ELSE
    Let(IF IsDollar(name) THEN DynVar(m, m.dyn[e].dyn, name, f)
        ELSE Ret(m, Err("KeyError")), LAMBDA up :
    Let(StaticVar(m.dyn[e].static, name), LAMBDA sv :
        IF up.r.t # "KeyError"
        THEN IF IsErr(up.r) THEN up
             ELSE VarEval(up.m, e, name, FALSE, sv, up.r, f)
        ELSE IF sv.env = 0 THEN Ret(up.m, Err("KeyError"))
             ELSE VarEval(up.m, e, name, TRUE, sv, None, f)))

\* _DynRules: pr_Num, pr_Sym, addition, call
\* _e_argument_list: the arguments evaluated left to right; the value is the
\* list of (name, value), name "" for a positional one
ArgumentList(m, e, args, done, f) ==
    IF args = <<>> THEN Ret(m, V("args", done))
    ELSE Let(EvalExpr(m, e, Head(args).x, f), LAMBDA v :
             IF IsErr(v.r) THEN v
             ELSE IF Head(args).name # "" /\ \E i \in 1..Len(done) : done[i].name = Head(args).name
             THEN Ret(v.m, Err("ValueError"))               \* already set
             ELSE IF IsDollar(Head(args).name)
             THEN Ret(v.m, Err("NameError"))                \* e.set_cc: e is not defined
             ELSE Let(Append(done, [name |-> Head(args).name, val |-> v.r]), LAMBDA d :
                      ArgumentList(v.m, e, Tail(args), d, f)))

EvalExpr(m, e, x, f) ==
    CASE x.k = "num" -> Ret(m, Num(x.v))
      [] x.k = "sym" -> DynVar(m, e, x.n, f)
      [] x.k = "add" ->
            Let(DynVar(m, e, x.n, f), LAMBDA l :
                IF IsErr(l.r) THEN l ELSE Ret(l.m, Plus(l.r, Num(x.v))))
      [] x.k = "call" -> DynFunc(m, e, x.n, f)
      [] x.k = "range" -> Ret(m, Err("NameError"))  \* ForStep is not defined in rules.py
      [] x.k = "vec" -> Ret(m, Lst([i \in 1..(x.hi - x.lo + 1) |-> Num(x.lo + i - 1)]))
      [] x.k = "args" -> ArgumentList(m, e, x.a, <<>>, f)
      [] OTHER -> Ret(m, None)

\* DynEnv.func with Function.eval_args (a function without parameters)
DynFunc(m, e, name, f) ==
    Let(StaticFunc(m.dyn[e].static, name), LAMBDA fn :
        IF fn.env = 0
        THEN Let(DynVar(m, e, name, f), LAMBDA v :
                 IF IsErr(v.r) THEN v ELSE Ret(v.m, Err("TypeError")))
        ELSE IF f = 0 THEN Ret(m, Err("RecursionError"))
        ELSE Let(NewDyn(m, fn.env, e, 0, 0), LAMBDA nd :
                 EvalExpr(nd.m, nd.id, fn.body, f - 1)))

\* DynEnv.build: the work items in order, the non-None results added up
BuildFrom(m, env, i, res, f) ==
    IF i > Len(stat[m.dyn[env].static].work) THEN Ret(m, res)
    ELSE Let(Note(m, m.dyn[env].static, i), LAMBDA m1 :
         Let(ItemBuildWith(m1, env, stat[m.dyn[env].static].work[i], f), LAMBDA r :
             IF IsErr(r.r) THEN r
             ELSE IF r.r = None THEN BuildFrom(r.m, env, i + 1, res, f)
             ELSE Let(IF res = None THEN r.r ELSE Plus(res, r.r), LAMBDA r2 :
                      BuildFrom(r.m, env, i + 1, r2, f))))

\* build that leaves out the first work item
BuildFromSecond(m, env, f) == BuildFrom(m, env, 2, None, f)

Build(m, env, f) == BuildFrom(m, env, 1, None, f)

\* DynEnv.mod: Module.eval_args for a module of the source, the _Mods
\* method called with the DynEnv as self for a built-in
\* the positional and the keyword arguments of a call
Positional(arg) ==
    IF arg.t = "args" THEN SelectSeq(arg.s, LAMBDA a : a.name = "")
    ELSE IF arg = None THEN <<>> ELSE <<[name |-> "", val |-> arg]>>
Keywords(arg) == IF arg.t = "args" THEN SelectSeq(arg.s, LAMBDA a : a.name # "") ELSE <<>>

\* _Call._collect.  vl: the names the positional arguments go to
ParamNames(params) == params.pos \o [i \in 1..Len(params.kw) |-> params.kw[i].name]

\* p = dict(**self.params[1]); p.update(kw)
CollectStart(params, kw) ==
    [n \in DynNames |->
        IF \E i \in 1..Len(kw) : kw[i].name = n
        THEN kw[CHOOSE i \in 1..Len(kw) : kw[i].name = n].val
        ELSE IF \E i \in 1..Len(params.kw) : params.kw[i].name = n
        THEN params.kw[CHOOSE i \in 1..Len(params.kw) : params.kw[i].name = n].val
        ELSE Absent]

\* for v in a: p[vl[off]] = v, as far as vl reaches
CollectPositional(p, vl, a) ==
    [n \in DynNames |->
        LET js == {j \in 1..Len(a) : j <= Len(vl) /\ vl[j] = n}
        IN  IF js = {} THEN p[n] ELSE a[CHOOSE j \in js : \A i \in js : i <= j].val]

\* for v in vl: a name without value is looked up with env.var if it
\* starts with $; when that fails, or for any other name, warnings.warn is
\* called, and blocks.py does not import warnings
RECURSIVE CollectMissing(_, _, _, _, _)
CollectMissing(m, env, p, vl, f) ==
    IF vl = <<>> THEN Ret(m, V("dict", p))
    ELSE IF p[Head(vl)] # Absent THEN CollectMissing(m, env, p, Tail(vl), f)
    ELSE IF ~IsDollar(Head(vl)) THEN Ret(m, Err("NameError"))
    ELSE Let(DynVar(m, env, Head(vl), f), LAMBDA v :
             IF v.r.t = "KeyError" THEN Ret(v.m, Err("NameError"))
             ELSE IF IsErr(v.r) THEN v
             ELSE CollectMissing(v.m, env, [p EXCEPT ![Head(vl)] = v.r], Tail(vl), f))

Collect(m, env, params, arg, f) ==
    IF Len(Positional(arg)) > Len(ParamNames(params))
    THEN Ret(m, Err("NameError"))                  \* warnings.warn("Too many params")
    ELSE Let(CollectPositional(CollectStart(params, Keywords(arg)),
                               ParamNames(params), Positional(arg)), LAMBDA p :
         Let(CollectMissing(m, env, p, ParamNames(params), f), LAMBDA c :
             IF IsErr(c.r) THEN c
             ELSE Ret([c.m EXCEPT !.vm[c.m.dyn[env].vars] =
                          [n \in DynNames |-> IF c.r.s[n] # Absent THEN c.r.s[n] ELSE @[n]]],
                      None)))

\* _Mods.for_(self, _intersect=False, **vars).  _for pops the last variable
\* and reads stepper.step: no value that evaluation delivers has a step (the
\* only makers of a ForStep, _e_pr_for2 and _e_pr_for3, raise NameError), so
\* the loop is never entered
For(m, e, arg) ==
    IF Len(Positional(arg)) > 1 THEN Ret(m, Err("TypeError"))
    ELSE IF Keywords(arg) = <<>> THEN Ret(m, Err("ValueError"))
    ELSE IF m.dyn[e].child = 0 THEN Ret(m, Err("AssertionError"))  \* DynEnv(None, self)
    ELSE Let(NewDyn(m, m.dyn[e].child, e, 0, 0), LAMBDA xenv :
             Ret(xenv.m, Err("AttributeError")))

\* _Mods.intersection_for_(self, **var): self is the DynEnv, which has no for_
IntersectionFor(m, e, arg) ==
    IF Positional(arg) # <<>> THEN Ret(m, Err("TypeError"))
    ELSE Ret(m, Err("AttributeError"))

DynMod(m, e, name, arg, f) ==
    Let(StaticMod(m.dyn[e].static, name), LAMBDA fn :
        IF fn = NoMod THEN Ret(m, Err("KeyError"))
        ELSE IF fn # Builtin
        THEN IF f = 0 THEN Ret(m, Err("RecursionError"))
             ELSE Let(NewDyn(m, fn, e, 0, 0), LAMBDA nd :
                  Let(Collect(nd.m, nd.id, stat[fn].params, arg, f - 1), LAMBDA c :
                      IF IsErr(c.r) THEN c ELSE Build(c.m, nd.id, f - 1)))
        ELSE CASE name = "children" -> ModChildren(m, e, arg)
               [] name = "union" -> ChildUnion(m, e, f)
               [] name = "difference" -> Difference(m, e, f)
               [] name = "intersection" -> Intersection(m, e, f)
               [] name = "for" -> For(m, e, arg)
               [] name = "intersection_for" -> IntersectionFor(m, e, arg)
               [] name = "cube" -> Ret(m, Cube(IF arg = None THEN Num(1) ELSE arg))
               [] OTHER -> Ret(m, Err("KeyError")))

\* the DynEnv a statement is evaluated in: Statement.build_with,
\* ParentStatement.build_with
StatementEnv(m, env, item) ==
    NewDyn(m, m.dyn[env].static, env, m.dyn[env].vars,
           IF item.kind = "ParentStatement" THEN item.child ELSE 0)

\* Statement.build_with / ParentStatement.build_with / StaticEnv.build_with
ItemBuildWith(m, env, item, f) ==
    IF f = 0 THEN Ret(m, Err("RecursionError"))
    ELSE IF item.kind = "Scope"
    THEN Let(NewDyn(m, item.child, env, 0, 0), LAMBDA nd : Build(nd.m, nd.id, f - 1))
    ELSE Let(StatementEnv(m, env, item), LAMBDA nd :
         Let(IF item.arg = ENone THEN Ret(nd.m, None)
             ELSE EvalExpr(nd.m, nd.id, item.arg, f - 1), LAMBDA a :
             IF IsErr(a.r) THEN a
             ELSE DynMod(a.m, nd.id, item.mod, a.r, f - 1)))

\* DynEnv.children, run to its end: l is the list of the values yielded
ChildrenFrom(m, e, i, l, f) ==
    IF i > Len(stat[m.dyn[e].child].work) THEN [m |-> m, r |-> None, l |-> l]
    ELSE IF m.dyn[e].cres[i] = Unknown
    THEN Let(Note(m, m.dyn[e].child, i), LAMBDA m1 :
         Let(ItemBuildWith(m1, e, stat[m.dyn[e].child].work[i], f), LAMBDA r :
             IF IsErr(r.r) THEN [m |-> r.m, r |-> r.r, l |-> l]
             ELSE Let([r.m EXCEPT !.dyn[e].cres[i] = r.r], LAMBDA m2 :
                  Let(Append(l, r.r), LAMBDA l2 :
                      ChildrenFrom(m2, e, i + 1, l2, f)))))
    ELSE Let(Append(l, m.dyn[e].cres[i]), LAMBDA l2 :
             ChildrenFrom(m, e, i + 1, l2, f))

Children(m, e, f) ==
    IF m.dyn[e].child = 0 THEN [m |-> m, r |-> None, l |-> <<None>>]
    ELSE Let(ChildEnv(m, e), LAMBDA m1 : ChildrenFrom(m1, e, 1, <<>>, f))

\* the loop of child_union over the values yielded
RECURSIVE UnionOf(_, _)
UnionOf(l, res) ==
    IF l = <<>> THEN res
    ELSE IF Head(l) = None THEN UnionOf(Tail(l), res)
    ELSE UnionOf(Tail(l), IF res = None THEN Head(l) ELSE Plus(res, Head(l)))

\* DynEnv.child_union
ChildUnion(m, e, f) ==
    Let(Children(m, e, f), LAMBDA c :
        IF IsErr(c.r) THEN Ret(c.m, c.r) ELSE Ret(c.m, UnionOf(c.l, None)))

\* one step of the generator DynEnv.children for a child block: the value
\* of child i (from 1), built if its slot is unknown
ChildYield(m, e, i, f) ==
    IF m.dyn[e].cres[i] = Unknown
    THEN Let(Note(m, m.dyn[e].child, i), LAMBDA m1 :
         Let(ItemBuildWith(m1, e, stat[m.dyn[e].child].work[i], f), LAMBDA r :
             IF IsErr(r.r) THEN r
             ELSE Ret([r.m EXCEPT !.dyn[e].cres[i] = r.r], r.r)))
    ELSE Ret(m, m.dyn[e].cres[i])

\* res -= c.  None has no __sub__ and Shape no __rsub__: TypeError; a shape
\* minus None is the kernel's business, and leaves <<0, 0>> in the trace
Minus(m, res, c) ==
    IF res.t = "Shape" /\ c.t = "Shape" THEN Ret(m, ShapeSub(res, c))
    ELSE IF res.t # "Shape" THEN Ret(m, Err("TypeError"))
    ELSE Ret([m EXCEPT !.trace = Append(@, <<0, 0>>)],
             IF kernel = "lenient" THEN res ELSE Err("KernelError"))

\* _Mods.difference, the loop  for c in ch: res -= c  from child i on
RECURSIVE DifferenceFrom(_, _, _, _, _)
DifferenceFrom(m, e, i, res, f) ==
    IF i > Len(stat[m.dyn[e].child].work) THEN Ret(m, res)
    ELSE Let(ChildYield(m, e, i, f), LAMBDA c :
             IF IsErr(c.r) THEN c
             ELSE Let(Minus(c.m, res, c.r), LAMBDA d :
                      IF IsErr(d.r) THEN d
                      ELSE DifferenceFrom(d.m, e, i + 1, d.r, f)))

\* _Mods.difference: res = next(ch) is the first value yielded
Difference(m, e, f) ==
    IF m.dyn[e].child = 0 THEN Ret(m, None)
    ELSE Let(ChildEnv(m, e), LAMBDA m1 :
         IF stat[m.dyn[e].child].work = <<>> THEN Ret(m1, Err("StopIteration"))
         ELSE Let(ChildYield(m1, e, 1, f), LAMBDA c :
                  IF IsErr(c.r) THEN c ELSE DifferenceFrom(c.m, e, 2, c.r, f)))

\* the loop of _Mods.intersection over the values yielded
RECURSIVE AndOf(_, _)
AndOf(l, res) ==
    IF l = <<>> THEN res
    ELSE IF Head(l) = None THEN AndOf(Tail(l), res)
    ELSE AndOf(Tail(l), IF res = None THEN Head(l) ELSE ShapeAnd(res, Head(l)))

\* res.clean(): the shape itself; None has no clean
Clean(res) == IF res = None THEN Err("AttributeError") ELSE res

\* _Mods.intersection
Intersection(m, e, f) ==
    Let(Children(m, e, f), LAMBDA c :
        IF IsErr(c.r) THEN Ret(c.m, c.r) ELSE Ret(c.m, Clean(AndOf(c.l, None))))

\* the older Env.difference (work.py), on the list ch that
\* _children(as_list=True) hands it: the loop  for c in ct: rr -= c
RECURSIVE WorkMinus(_, _)
WorkMinus(rr, ct) ==
    IF ct = <<>> \/ IsErr(rr) THEN rr
    ELSE WorkMinus(IF rr.t = "Shape" /\ Head(ct).t = "Shape"
                   THEN ShapeSub(rr, Head(ct)) ELSE Err("TypeError"), Tail(ct))

WorkDifference(ch) ==
    IF ch.s = <<>> THEN None                        \* if not ch
    ELSE IF Len(ch.s) = 1 THEN ch                   \* return ch
    ELSE IF ch.s[1] = None THEN None
    ELSE IF ch.s[1].t = "list" /\ Len(ch.s[1].s) # 1 THEN Err("ValueError")
    ELSE WorkMinus(IF ch.s[1].t = "list" THEN ch.s[1].s[1] ELSE ch.s[1],
                   SelectSeq(Tail(ch.s), LAMBDA c : c # None))

----------------------------------------------------------------------------
(* The programs and the objects the embedding program holds.               *)

Scope(child) == [kind |-> "Scope", mod |-> "", arg |-> ENone, child |-> child]

ItemCodes == {"prim", "none", "fn", "scope"}
\* the j-th statement of a block; nest is the scope of a nested { } block
Item(code, j, nest) ==
    CASE code = "prim" -> Statement("cube", ENum(j))        \* cube(j);
      [] code = "none" -> Statement("union", ENone)          \* union();
      [] code = "fn" -> Statement("cube", ECall("f"))        \* cube(f());
      [] OTHER -> Scope(nest)                                \* { cube(8); cube(9); }

Patterns == UNION {[1..k -> ItemCodes] : k \in 0..MaxK}
Block(p, nest) == [j \in 1..Len(p) |-> Item(p[j], j, nest)]
NestWork == <<Statement("cube", ENum(8)), Statement("cube", ENum(9))>>

BuiltinsEnv ==
    [StaticEnv(0) EXCEPT !.mods = [n \in ModNames |->
                                      IF n = "h" THEN NoMod ELSE Builtin]]

\* Env.__init__: the defaults of the top-level DynEnv
EnvDefaults == [NoVals EXCEPT !["$fn"] = Num(999)]

NoBuilt == [s \in 1..(SChild + MaxNest + 1) |-> [i \in 1..(MaxK + 2) |-> 0]]
Idle == [op |-> "", e |-> 0, n |-> "", i |-> None, r |-> None]

Machine == [dyn |-> dyn, vm |-> vm, built |-> built, trace |-> <<>>]

\* When an operation returns, the objects it made are dropped; those the
\* embedding program holds stay.
\* a dynamic operation that binds a variable in a static scope, as
\* venv.set_var(var, val) of for_ would with venv = ch.parent
StaticAfterLoopVar(st, res) == [st EXCEPT ![SMain].vars["a"] = ENum(0)]

\* The static scopes after a dynamic operation with the result res.  No rule
\* of _DynRules, no method of DynEnv and no built-in assigns to the vars,
\* funcs, mods or work of a StaticEnv: DynEnv.set_var and _collect write the
\* vars of the DynEnv, and for_, whose venv is the static parent of the child
\* block, raises before it reaches venv.set_var (see For).
StaticAfter(st, res) == st

Finish(res, op, e, n, i) ==
    /\ stat' = StaticAfter(stat, res)
    /\ dyn' = SubSeq(res.m.dyn, 1, Len(dyn))
    /\ vm' = SubSeq(res.m.vm, 1, Len(vm))
    /\ built' = res.m.built
    /\ trace' = res.m.trace
    /\ last' = [op |-> op, e |-> e, n |-> n, i |-> i, r |-> res.r]
    /\ calls' = calls + 1
    /\ UNCHANGED <<src, kernel, cur_env, withs, main_env>>

(* module h() { $x = 7; <block> }   function f() = $x;   h() { <block> }    *)
(*   1: the Env;  2: the DynEnv of the statement h() {..}, which carries    *)
(*   the child block;  3: the DynEnv of the call of h (Module.eval_args)    *)
TopEnv == 1
StmtEnv == 2
ModEnv == 3

ChildProgram(p) ==
    <<BuiltinsEnv,
      StaticEnv(SBuiltins),
      [StaticEnv(SMiddle) EXCEPT
          !.funcs["f"] = ESym("$x"),
          !.mods["h"] = SBody,
          !.work = <<IF p = <<>> THEN Statement("h", ENone)
                     ELSE ParentStatement("h", ENone, SChild)>>],
      [StaticEnv(SMain) EXCEPT !.vars["$x"] = ENum(7), !.work = Block(p, SNest1)],
      [StaticEnv(SMain) EXCEPT !.work = Block(p, SNest2)],
      [StaticEnv(SBody) EXCEPT !.work = NestWork],
      [StaticEnv(SChild) EXCEPT !.work = NestWork]>>

Init ==
    /\ \E p \in Patterns : stat = ChildProgram(p)
    /\ dyn = <<DynEnv(SMain, 0, 1, 0),
               DynEnv(SMain, TopEnv, 1, IF stat[SChild].work = <<>> THEN 0 ELSE SChild),
               DynEnv(SBody, StmtEnv, 2, 0)>>
    /\ vm = <<EnvDefaults, NoVals>>
    /\ built = NoBuilt
    /\ trace = <<>>
    /\ last = Idle
    /\ calls = 0
    /\ src = <<>>
    /\ kernel \in Kernels
    /\ cur_env = 0
    /\ withs = <<>>
    /\ main_env = 0

Indices == {None} \cup {Num(i) : i \in 0..MaxK}

\* the built-in children(idx) called with DynEnv e as self
ChildrenOp(e, idx) ==
    /\ calls < MaxCalls
    /\ \E res \in {ModChildren(Machine, e, idx)} :
           Finish(res, "children", e, "", idx)

\* e.child_union()
ChildUnionOp(e) ==
    /\ calls < MaxCalls
    /\ \E res \in {ChildUnion(Machine, e, RecursionLimit)} :
           Finish(res, "child_union", e, "", None)

\* e.build()
BuildOp(e) ==
    /\ calls < MaxCalls
    /\ \E res \in {Build(Machine, e, RecursionLimit)} :
           Finish(res, "build", e, "", None)

Next ==
    \/ \E e \in {TopEnv, StmtEnv}, idx \in Indices : ChildrenOp(e, idx)
    \/ \E e \in {TopEnv, StmtEnv} : ChildUnionOp(e)
    \/ BuildOp(ModEnv)

Spec == Init /\ [][Next]_vars

----------------------------------------------------------------------------
(* Whole programs: a module that hands out its children.                    *)
(*   module h() { $x = 7; W children(idx); }  function f() = $x;            *)
(*   h() { <block> }                                                        *)
(* W is nothing, union(), or union() union(): each a statement with the     *)
(* rest as its single child, which _e_mod_inst_child lowers into a          *)
(* StaticEnv of one work item.                                              *)

IdxExpr(idx) == IF idx = None THEN ENone ELSE ENum(idx.s[1])

\* the scope holding the children() call: the body of h, or the innermost of
\* the nest scopes 6 .. 5 + nest; the scope after them is that of a { } block
CallScope(nest) == IF nest = 0 THEN SBody ELSE SChild + nest

ModuleProgram(p, idx, nest) ==
    <<BuiltinsEnv,
      StaticEnv(SBuiltins),
      [StaticEnv(SMiddle) EXCEPT
          !.funcs["f"] = ESym("$x"),
          !.mods["h"] = SBody,
          !.work = <<IF p = <<>> THEN Statement("h", ENone)
                     ELSE ParentStatement("h", ENone, SChild)>>],
      [StaticEnv(SMain) EXCEPT
          !.vars["$x"] = ENum(7),
          !.work = <<IF nest = 0 THEN Statement("children", IdxExpr(idx))
                     ELSE ParentStatement("union", ENone, SChild + 1)>>],
      [StaticEnv(SMain) EXCEPT !.work = Block(p, SChild + nest + 1)]>>
    \o [j \in 1..nest |->
          [StaticEnv(IF j = 1 THEN SBody ELSE SChild + j - 1) EXCEPT
              !.work = <<IF j = nest THEN Statement("children", IdxExpr(idx))
                         ELSE ParentStatement("union", ENone, SChild + j + 1)>>]]
    \o <<[StaticEnv(SChild) EXCEPT !.work = NestWork]>>

InitModule ==
    /\ \E p \in Patterns, idx \in Indices, nest \in 0..MaxNest :
          stat = ModuleProgram(p, idx, nest)
    /\ dyn = <<DynEnv(SMain, 0, 1, 0)>>
    /\ vm = <<EnvDefaults>>
    /\ built = NoBuilt
    /\ trace = <<>>
    /\ last = Idle
    /\ calls = 0
    /\ src = <<>>
    /\ kernel \in Kernels
    /\ cur_env = 0
    /\ withs = <<>>
    /\ main_env = 0

NextModule == BuildOp(TopEnv)

SpecModule == InitModule /\ [][NextModule]_vars

----------------------------------------------------------------------------
(* The static pass on assignments, and variable lookup.                     *)
(*   T = the Env, D = the DynEnv of the statement calling h (it shares T's  *)
(*   values), M = the DynEnv of the call of h, N = the DynEnv of a { }      *)
(*   block in the body of h (StaticEnv.build_with).                         *)

NestEnv == 4

\* _MainEnv.add_var passes _env=self to _Env.add_var, which takes no such
\* keyword: TypeError.  _Env.add_var on a name already bound calls
\* warnings.warn, and env.py does not import warnings: NameError.
AddVar(st, s, name, body) ==
    IF s = SMain THEN [stat |-> st, r |-> Err("TypeError")]
    ELSE IF st[s].vars[name] # EAbsent THEN [stat |-> st, r |-> Err("NameError")]
    ELSE [stat |-> [st EXCEPT ![s].vars[name] = body], r |-> None]

\* _e__list over the assignments of a scope, each through _e_assignment;
\* an exception ends the static pass
RECURSIVE LowerAssignments(_, _, _, _)
LowerAssignments(st, s, as, i) ==
    IF i > Len(as) THEN [stat |-> st, r |-> None]
    ELSE Let(AddVar(st, s, as[i].n, as[i].b), LAMBDA res :
             IF IsErr(res.r) THEN res
             ELSE LowerAssignments(res.stat, s, as, i + 1))

Assign(n, b) == [n |-> n, b |-> b]
AssignPool ==
    {Assign("a", EAdd("b", 1)), Assign("a", EAdd("a", 1)), Assign("a", EAdd("$x", 1)),
     Assign("b", ENum(1)), Assign("b", EAdd("a", 1)),
     Assign("$x", ENum(7)), Assign("$x", EAdd("$x", 1))}
AssignSeqs ==
    {as \in UNION {[1..k -> AssignPool] : k \in 0..MaxAssign} :
        \A i, j \in 1..Len(as) : i # j => as[i].n # as[j].n}

VarProgram ==
    <<BuiltinsEnv,
      StaticEnv(SBuiltins),
      [StaticEnv(SMiddle) EXCEPT !.mods["h"] = SBody],
      [StaticEnv(SMain) EXCEPT !.work = <<Scope(SNest1)>>],
      StaticEnv(SMain),
      [StaticEnv(SBody) EXCEPT !.work = NestWork],
      StaticEnv(SChild)>>

VarChain ==
    <<DynEnv(SMain, 0, 1, 0), DynEnv(SMain, TopEnv, 1, 0),
      DynEnv(SBody, StmtEnv, 2, 0), DynEnv(SNest1, ModEnv, 3, 0)>>

InitVar ==
    /\ \E s \in {SMain, SBody}, as \in AssignSeqs :
          \E low \in {LowerAssignments(VarProgram, s, as, 1)} :
             /\ stat = low.stat
             /\ src = as
             /\ last = [op |-> "lower", e |-> s, n |-> "", i |-> None, r |-> low.r]
    /\ dyn = VarChain
    /\ vm = <<EnvDefaults, NoVals, NoVals>>
    /\ built = NoBuilt
    /\ trace = <<>>
    /\ calls = 0
    /\ kernel \in Kernels
    /\ cur_env = 0
    /\ withs = <<>>
    /\ main_env = 0

\* e.var(name)
VarOp(e, name) ==
    /\ calls < MaxLookups
    /\ \E res \in {DynVar(Machine, e, name, RecursionLimit)} :
           Finish(res, "var", e, name, None)

NextVar == \E e \in {ModEnv, NestEnv}, name \in DynNames : VarOp(e, name)

SpecVar == InitVar /\ [][NextVar]_vars

\* the same with the DynEnv of a statement of the body of h, made by
\* Statement.build_with with with_vars=True: it shares the vars of ModEnv
BodyStmtEnv == 5
CacheChain == Append(VarChain, DynEnv(SBody, ModEnv, VarChain[ModEnv].vars, 0))

\* what Env.set_var may have stored under $x before the build: nothing, a
\* number, an empty vector
TopValues == {Absent, Num(5), Lst(<<>>)}

InitCache ==
    /\ \E s \in {SMain, SBody}, as \in AssignSeqs :
          \E low \in {LowerAssignments(VarProgram, s, as, 1)} :
             /\ stat = low.stat
             /\ src = as
             /\ last = [op |-> "lower", e |-> s, n |-> "", i |-> None, r |-> low.r]
    /\ dyn = CacheChain
    /\ \E tx \in TopValues : vm = <<[EnvDefaults EXCEPT !["$x"] = tx], NoVals, NoVals>>
    /\ built = NoBuilt
    /\ trace = <<>>
    /\ calls = 0
    /\ kernel \in Kernels
    /\ cur_env = 0
    /\ withs = <<>>
    /\ main_env = 0

SpecCache == InitCache /\ [][\E e \in 1..BodyStmtEnv, name \in DynNames : VarOp(e, name)]_vars

(* $-variables: h is declared  module h($x, b)  and its body may assign $x  *)
(* and b; Env.set_var may have given $x a value at top level, and the call  *)
(* of h may have bound its parameters (_Call._collect: env[k] = v).         *)
InitDollar ==
    /\ \E bx \in {EAbsent, ENum(7)}, bb \in {EAbsent, ENum(1)} :
          stat = [VarProgram EXCEPT ![SBody].vars["$x"] = bx,
                                    ![SBody].vars["b"] = bb]
    /\ \E tx \in {Absent, Num(5)}, mx \in {Absent, Num(6)}, mb \in {Absent, Num(5)} :
          vm = <<[EnvDefaults EXCEPT !["$x"] = tx],
                 [NoVals EXCEPT !["$x"] = mx, !["b"] = mb],
                 NoVals>>
    /\ dyn = VarChain
    /\ built = NoBuilt
    /\ trace = <<>>
    /\ last = Idle
    /\ calls = 0
    /\ src = <<>>
    /\ kernel \in Kernels
    /\ cur_env = 0
    /\ withs = <<>>
    /\ main_env = 0

SpecDollar == InitDollar /\ [][NextVar]_vars

----------------------------------------------------------------------------
(* The static pass on declarations.                                         *)

\* logger.warning: one more record in the log
Warn(tr, s) == Append(tr, <<s, 0>>)

Declared(st, op, s, n) ==
    CASE op = "assignment" -> st[s].vars[n] # EAbsent
      [] op \in {"stmt_decl_fn", "add_func"} -> st[s].funcs[n] # EAbsent
      [] op \in {"stmt_decl_mod", "add_mod"} -> st[s].mods[n] # NoMod
      [] OTHER -> FALSE

Done(st, tr, op, s, n, r) ==
    /\ stat' = st
    /\ trace' = tr
    /\ last' = [op |-> op, e |-> s, n |-> n, i |-> None, r |-> r]
    /\ calls' = calls + 1
    /\ UNCHANGED <<dyn, vm, built, src, kernel, cur_env, withs, main_env>>

\* _StaticRules._e_assignment
AssignmentOp(s, name, body) ==
    /\ calls < MaxCalls
    /\ \E res \in {AddVar(stat, s, name, body)} :
           Done(res.stat, trace, "assignment", s, name, res.r)

\* _StaticRules._e_stmt_decl_fn
DeclFnOp(s, name, body) ==
    /\ calls < MaxCalls
    /\ IF stat[s].funcs[name] # EAbsent
       THEN Done(stat, Warn(trace, s), "stmt_decl_fn", s, name, None)
       ELSE Done([stat EXCEPT ![s].funcs[name] = body], trace,
                 "stmt_decl_fn", s, name, None)

\* _StaticRules._e_stmt_decl_mod: the body is a new StaticEnv(self)
DeclModOp(s, name) ==
    /\ calls < MaxCalls
    /\ IF stat[s].mods[name] # NoMod
       THEN Done(stat, Warn(trace, s), "stmt_decl_mod", s, name, None)
       ELSE Done([Append(stat, StaticEnv(s)) EXCEPT ![s].mods[name] = Len(stat) + 1],
                 trace, "stmt_decl_mod", s, name, None)

\* _Env.add_func_ / _Env.add_mod_: warnings.warn without the import
AddFunc_(st, s, name, fn) ==
    IF st[s].funcs[name] # EAbsent THEN [stat |-> st, r |-> Err("NameError")]
    ELSE [stat |-> [st EXCEPT ![s].funcs[name] = fn], r |-> None]
AddMod_(st, s, name, mod) ==
    IF st[s].mods[name] # NoMod THEN [stat |-> st, r |-> Err("NameError")]
    ELSE [stat |-> [st EXCEPT ![s].mods[name] = mod], r |-> None]

\* Env.add_func: static.add_func_, which _MainEnv forwards to its parent
AddFuncOp(name, fn) ==
    /\ calls < MaxCalls
    /\ \E res \in {AddFunc_(stat, stat[SMain].parent, name, fn)} :
           Done(res.stat, trace, "add_func", stat[SMain].parent, name, res.r)

\* Env.add_mod, for a host callable
AddModOp(name) ==
    /\ calls < MaxCalls
    /\ \E res \in {AddMod_(stat, stat[SMain].parent, name, Builtin)} :
           Done(res.stat, trace, "add_mod", stat[SMain].parent, name, res.r)

InitStatic ==
    /\ stat = <<BuiltinsEnv, StaticEnv(SBuiltins), StaticEnv(SMiddle),
                StaticEnv(SMain), StaticEnv(SMain), StaticEnv(SBody),
                StaticEnv(SChild)>>
    /\ dyn = <<DynEnv(SMain, 0, 1, 0)>>
    /\ vm = <<EnvDefaults>>
    /\ built = NoBuilt
    /\ trace = <<>>
    /\ last = Idle
    /\ calls = 0
    /\ src = <<>>
    /\ kernel \in Kernels
    /\ cur_env = 0
    /\ withs = <<>>
    /\ main_env = 0

Bodies == {ENum(1), ENum(2)}

NextStatic ==
    \/ \E s \in {SMain, SBody}, name \in VarNames, body \in Bodies :
          AssignmentOp(s, name, body)
    \/ \E s \in {SMain, SBody}, name \in FuncNames, body \in Bodies :
          DeclFnOp(s, name, body)
    \/ \E s \in {SMain, SBody} : DeclModOp(s, "h")
    \/ \E name \in FuncNames, body \in Bodies : AddFuncOp(name, body)
    \/ AddModOp("h")

SpecStatic == InitStatic /\ [][NextStatic]_vars

----------------------------------------------------------------------------
(* The CSG built-ins on a child block:  op() { <block> }  at top level.     *)

CsgPatterns == UNION {[1..k -> {"prim", "none", "scope"}] : k \in 0..(MaxK + 1)}

CsgProgram(op, p) ==
    <<BuiltinsEnv,
      StaticEnv(SBuiltins),
      [StaticEnv(SMiddle) EXCEPT
          !.work = <<IF p = <<>> THEN Statement(op, ENone)
                     ELSE ParentStatement(op, ENone, SChild)>>],
      StaticEnv(SMain),
      [StaticEnv(SMain) EXCEPT !.work = Block(p, SNest2)],
      StaticEnv(SBody),
      [StaticEnv(SChild) EXCEPT !.work = NestWork]>>

InitCsg ==
    /\ \E op \in {"union", "difference", "intersection"}, p \in CsgPatterns :
          stat = CsgProgram(op, p)
    /\ dyn = <<DynEnv(SMain, 0, 1, 0)>>
    /\ vm = <<EnvDefaults>>
    /\ built = NoBuilt
    /\ trace = <<>>
    /\ last = Idle
    /\ calls = 0
    /\ src = <<>>
    /\ kernel \in Kernels
    /\ cur_env = 0
    /\ withs = <<>>
    /\ main_env = 0

\* the older Env.difference called for the statement at top level; the list
\* of its children's values is the one DynEnv.children yields, None when the
\* statement has no child block
WorkChildren(m, f) ==
    IF stat[SMain].work[1].kind # "ParentStatement" THEN Ret(m, None)
    ELSE Let(StatementEnv(m, TopEnv, stat[SMain].work[1]), LAMBDA nd :
         Let(Children(nd.m, nd.id, f), LAMBDA c :
             Ret(c.m, IF IsErr(c.r) THEN c.r ELSE Lst(c.l))))

WorkDifferenceOp ==
    /\ calls < MaxCalls
    /\ stat[SMain].work[1].mod = "difference"
    /\ \E ch \in {WorkChildren(Machine, RecursionLimit)} :
           Finish(Ret(ch.m, IF IsErr(ch.r) THEN ch.r ELSE WorkDifference(ch.r)),
                  "work_difference", TopEnv, "", None)

SpecCsg == InitCsg /\ [][BuildOp(TopEnv) \/ WorkDifferenceOp]_vars

----------------------------------------------------------------------------
(* for / intersection_for at top level:                                     *)
(*   for (a = S1, b = S2) { cube(a); }                                      *)

Steppers ==
    {ERange(lo, hi, st) : lo \in 0..1, hi \in 0..MaxVal, st \in 1..MaxStep}
    \cup {EVec(lo, hi) : lo \in 0..1, hi \in 0..MaxVal}
ForArguments == UNION {[1..n -> Steppers] : n \in 1..MaxVars}

ForProgram(op, ss, block) ==
    <<BuiltinsEnv,
      StaticEnv(SBuiltins),
      [StaticEnv(SMiddle) EXCEPT
          !.work = <<LET args == EArgs([i \in 1..Len(ss) |->
                                         Argument(<<"a", "b", "c">>[i], ss[i])])
                     IN  IF block THEN ParentStatement(op, args, SChild)
                         ELSE Statement(op, args)>>],
      StaticEnv(SMain),
      [StaticEnv(SMain) EXCEPT !.work = <<Statement("cube", ESym("a"))>>],
      StaticEnv(SBody),
      StaticEnv(SChild)>>

InitFor ==
    /\ \E op \in {"for", "intersection_for"}, ss \in ForArguments, block \in BOOLEAN :
           stat = ForProgram(op, ss, block)
    /\ dyn = <<DynEnv(SMain, 0, 1, 0)>>
    /\ vm = <<EnvDefaults>>
    /\ built = NoBuilt
    /\ trace = <<>>
    /\ last = Idle
    /\ calls = 0
    /\ src = <<>>
    /\ kernel \in Kernels
    /\ cur_env = 0
    /\ withs = <<>>
    /\ main_env = 0

SpecFor == InitFor /\ [][BuildOp(TopEnv)]_vars

----------------------------------------------------------------------------
(* A module with parameters and a call of it:                               *)
(*   module h(<src>) { cube(p1); cube(p2); }     h(<arguments>);            *)

\* _StaticRules._e_parameter_list / _e_parameter: a default is evaluated by
\* the static scope, whose rules hold no expression: RuntimeError("Syntax not
\* implemented")
RECURSIVE ParameterList(_, _)
ParameterList(ps, a) ==
    IF ps = <<>> THEN [r |-> None, params |-> [pos |-> a, kw |-> <<>>]]
    ELSE IF Head(ps).def # EAbsent THEN [r |-> Err("RuntimeError"), params |-> NoParams]
    ELSE ParameterList(Tail(ps), Append(a, Head(ps).name))

\* _StaticRules._e_stmt_decl_mod for  module name(ps) { cube(p); .. }, one
\* cube for each parameter
DeclModParamsOp(s, name, ps) ==
    /\ calls < MaxCalls
    /\ IF stat[s].mods[name] # NoMod
       THEN Done(stat, Warn(trace, s), "stmt_decl_mod", s, name, None)
       ELSE \E res \in {ParameterList(ps, <<>>)} :
              IF IsErr(res.r) THEN Done(stat, trace, "stmt_decl_mod", s, name, res.r)
              ELSE Done([Append(stat,
                            [StaticEnv(s) EXCEPT
                                !.params = res.params,
                                !.work = [j \in 1..Len(ps) |->
                                             Statement("cube", ESym(ps[j].name))]])
                           EXCEPT ![s].mods[name] = Len(stat) + 1],
                        trace, "stmt_decl_mod", s, name, None)

\* a parameter of a declaration: its name and its default, EAbsent for none
Declarations ==
    {ps \in UNION {[1..k -> {[name |-> n, def |-> d] :
                                n \in VarNames, d \in {EAbsent, ENum(5)}}] :
                   k \in 0..MaxParams} :
        \A i, j \in 1..Len(ps) : ps[i].name = ps[j].name => i = j}
\* the j-th argument has the value j
CallArguments ==
    UNION {{[j \in 1..k |-> Argument(ns[j], ENum(j))] : ns \in [1..k -> {"", "a", "b"}]} :
           k \in 0..MaxArgs}

InitCall ==
    /\ \E args \in CallArguments :
          stat = <<BuiltinsEnv, StaticEnv(SBuiltins),
                   [StaticEnv(SMiddle) EXCEPT !.work = <<Statement("h", EArgs(args))>>],
                   StaticEnv(SMain), StaticEnv(SMain), StaticEnv(SBody),
                   StaticEnv(SChild)>>
    /\ src \in Declarations
    /\ dyn = <<DynEnv(SMain, 0, 1, 0)>>
    /\ \E x \in {Absent, Num(9)} : vm = <<[EnvDefaults EXCEPT !["$x"] = x]>>
    /\ built = NoBuilt
    /\ trace = <<>>
    /\ last = Idle
    /\ calls = 0
    /\ kernel \in Kernels
    /\ cur_env = 0
    /\ withs = <<>>
    /\ main_env = 0

SpecCall == InitCall /\ [][DeclModParamsOp(SMain, "h", src) \/ BuildOp(TopEnv)]_vars

----------------------------------------------------------------------------
(* with env: .. blocks, nested in each other, on three environments.        *)

\* DynEnv.__enter__ of env e, the record d, while cur_env holds cur
DynEnter(d, e, cur) ==
    IF d.token # NoToken
    THEN IF cur # e THEN [d |-> d, cur |-> cur, r |-> Err("RuntimeError")]
         ELSE [d |-> [d EXCEPT !.recurse = @ + 1], cur |-> cur, r |-> None]
    ELSE [d |-> [d EXCEPT !.token = cur], cur |-> e, r |-> None]

\* the same without the count of re-entries
DynExitAlwaysResets(d, cur) == [d |-> [d EXCEPT !.token = NoToken], cur |-> d.token]

\* DynEnv.__exit__; cur_env.reset(token) puts back the value before the set
DynExit(d, cur) ==
    IF d.recurse > 0 THEN [d |-> [d EXCEPT !.recurse = @ - 1], cur |-> cur]
    ELSE [d |-> [d EXCEPT !.token = NoToken], cur |-> d.token]

\* with e: is entered; when __enter__ raises, the block is not
EnterOp(e) ==
    /\ Len(withs) < MaxWith
    /\ \E res \in {DynEnter(dyn[e], e, cur_env)} :
          /\ dyn' = [dyn EXCEPT ![e] = res.d]
          /\ cur_env' = res.cur
          /\ withs' = IF IsErr(res.r) THEN withs
                      ELSE Append(withs, [e |-> e, before |-> cur_env])
          /\ last' = [op |-> "__enter__", e |-> e, n |-> "", i |-> Num(cur_env),
                      r |-> res.r]
    /\ UNCHANGED <<stat, vm, built, trace, calls, src, kernel, main_env>>

\* the innermost with block is left, at its end or by an exception
ExitOp(exc) ==
    /\ withs # <<>>
    /\ \E top \in {withs[Len(withs)]} :
       \E res \in {DynExit(dyn[top.e], cur_env)} :
          /\ dyn' = [dyn EXCEPT ![top.e] = res.d]
          /\ cur_env' = res.cur
          /\ withs' = SubSeq(withs, 1, Len(withs) - 1)
          /\ last' = [op |-> "__exit__", e |-> top.e,
                      n |-> IF exc THEN "exception" ELSE "",
                      i |-> Num(top.before), r |-> None]
    /\ UNCHANGED <<stat, vm, built, trace, calls, src, kernel, main_env>>

InitEnter ==
    /\ stat = <<BuiltinsEnv, StaticEnv(SBuiltins), StaticEnv(SMiddle),
                StaticEnv(SMain), StaticEnv(SMain), StaticEnv(SBody),
                StaticEnv(SChild)>>
    /\ dyn = <<DynEnv(SMain, 0, 1, 0), DynEnv(SMain, TopEnv, 1, 0),
               DynEnv(SBody, StmtEnv, 2, 0)>>
    /\ vm = <<EnvDefaults, NoVals>>
    /\ built = NoBuilt
    /\ trace = <<>>
    /\ last = Idle
    /\ calls = 0
    /\ src = <<>>
    /\ kernel \in Kernels
    /\ cur_env = 0
    /\ withs = <<>>
    /\ main_env = 0

SpecEnter ==
    InitEnter /\ [][(\E e \in {TopEnv, StmtEnv, ModEnv} : EnterOp(e))
                    \/ (\E exc \in BOOLEAN : ExitOp(exc))]_vars

----------------------------------------------------------------------------
(* The static pass over object statements with the * modifier:              *)
(*   cube();   *cube();   union() { *cube(); cube(); }   union() *cube();   *)

\* a module instantiation of the source: star, the * modifier; form "" for
\* foo();  "block" for foo() { .. }  and "single" for foo() bar();  with the
\* stars of the children
Inst(star, form, children) == [star |-> star, form |-> form, children |-> children]

\* what _e_mod_inst_star returns where a work item is expected
NoItem == [kind |-> "None", mod |-> "", arg |-> ENone, child |-> 0]

\* _e_stmt_obj on x in scope s: _e_mod_inst_star gives None, which is an
\* "Empty statement"; _e_mod_inst_child drops the None of a child in a block
\* (_e_child_statement) and appends the one of a single child
LowerInst(st, s, x) ==
    IF x.star THEN [stat |-> st, r |-> Err("RuntimeError")]
    ELSE IF x.form = ""
    THEN [stat |-> [st EXCEPT ![s].work = Append(@, Statement("cube", ENone))], r |-> None]
    ELSE LET kept == IF x.form = "single"
                     THEN <<IF x.children[1] THEN NoItem ELSE Statement("cube", ENone)>>
                     ELSE [j \in 1..Len(SelectSeq(x.children, LAMBDA c : ~c)) |->
                              Statement("cube", ENone)]
             st2 == Append(st, [StaticEnv(s) EXCEPT !.work = kept])
         IN  IF kept = <<>>
             THEN [stat |-> [st2 EXCEPT ![s].work = Append(@, Statement("union", ENone))],
                   r |-> None]
             ELSE [stat |-> [st2 EXCEPT ![s].work =
                                Append(@, ParentStatement("union", ENone, Len(st2)))],
                   r |-> None]

\* _e_Input / _e__list: the next statement of the file; an exception ends
\* the pass
StmtObjOp ==
    /\ calls < Len(src)
    /\ ~IsErr(last.r)
    /\ \E res \in {LowerInst(stat, SMain, src[calls + 1])} :
          Done(res.stat, trace, "stmt_obj", SMain, "", res.r)

Insts ==
    {Inst(st, "", <<>>) : st \in BOOLEAN}
    \cup {Inst(st, "single", <<c>>) : st \in BOOLEAN, c \in BOOLEAN}
    \cup {Inst(st, "block", cs) : st \in BOOLEAN,
                                  cs \in UNION {[1..k -> BOOLEAN] : k \in 1..MaxStmts}}

InitStar ==
    /\ stat = <<BuiltinsEnv, StaticEnv(SBuiltins), StaticEnv(SMiddle),
                StaticEnv(SMain), StaticEnv(SMain), StaticEnv(SBody),
                StaticEnv(SChild)>>
    /\ dyn = <<DynEnv(SMain, 0, 1, 0)>>
    /\ vm = <<EnvDefaults>>
    /\ built = NoBuilt
    /\ trace = <<>>
    /\ last = Idle
    /\ calls = 0
    /\ src \in UNION {[1..k -> Insts] : k \in 1..MaxStmts}
    /\ kernel \in Kernels
    /\ cur_env = 0
    /\ withs = <<>>
    /\ main_env = 0

SpecStar == InitStar /\ [][StmtObjOp]_vars

----------------------------------------------------------------------------
(* Source files that include each other: src[f] lists the files that file   *)
(* f includes, in the order of its include statements.                      *)

\* Eval.eval of the tree of file f (eval.py): _e_Input, and _e_Include for
\* each include statement: the file named is parsed and evaluated by a new
\* Eval, whatever was included before; after that, e.inject_vars(ep) names
\* an e that does not exist.  log: the files lowered so far, f: the Python
\* calls left before RecursionError
RECURSIVE EvalInput(_, _, _, _)
EvalInput(file, incs, log, f) ==
    IF incs = <<>> THEN [r |-> None, log |-> log]
    ELSE IF f = 0 THEN [r |-> Err("RecursionError"), log |-> log]
    ELSE Let(EvalInput(Head(incs), src[Head(incs)], Append(log, <<Head(incs), 0>>), f - 1),
             LAMBDA res : IF IsErr(res.r) THEN res
                          ELSE [r |-> Err("NameError"), log |-> res.log])

\* _StaticRules._e_Input (rules.py): the static scope has no rule for an
\* include statement
StaticInput(file) ==
    [r |-> IF src[file] = <<>> THEN None ELSE Err("RuntimeError"),
     log |-> <<<<file, 0>>>>]

\* a file is lowered, by the one pass or the other
InputOp(file, pass) ==
    /\ calls < MaxCalls
    /\ \E res \in {IF pass = "Eval"
                   THEN EvalInput(file, src[file], <<<<file, 0>>>>, RecursionLimit)
                   ELSE StaticInput(file)} :
          Done(stat, res.log, "Input", file, pass, res.r)

InitInclude ==
    /\ stat = <<BuiltinsEnv, StaticEnv(SBuiltins), StaticEnv(SMiddle),
                StaticEnv(SMain), StaticEnv(SMain), StaticEnv(SBody),
                StaticEnv(SChild)>>
    /\ dyn = <<DynEnv(SMain, 0, 1, 0)>>
    /\ vm = <<EnvDefaults>>
    /\ built = NoBuilt
    /\ trace = <<>>
    /\ last = Idle
    /\ calls = 0
    /\ src \in [1..MaxFiles -> UNION {[1..k -> 1..MaxFiles] : k \in 0..MaxStmts}]
    /\ kernel \in Kernels
    /\ cur_env = 0
    /\ withs = <<>>
    /\ main_env = 0

SpecInclude ==
    InitInclude /\ [][\E file \in 1..MaxFiles, pass \in {"Eval", "Static"} :
                         InputOp(file, pass)]_vars

----------------------------------------------------------------------------
(* use <file>.  src[f] lists the top-level statements of file f: a use of   *)
(* another file, the assignment, function or module declaration of a name,  *)
(* or a statement that renders something.  File 1 is the file processed.    *)

UseNames == {"a"}
VarsKeys == UseNames \cup {"_e_children", "$fn", "$fa", "$fs", "$preview"}
Stmt(k, n, f) == [k |-> k, n |-> n, f |-> f]

\* Vars.__getitem__ (vars.py): the own dict, then the chain of prev
RECURSIVE VarsGet(_, _, _)
VarsGet(h, id, k) ==
    IF h[id].data[k] # Absent THEN h[id].data[k]
    ELSE IF h[id].prev # 0 THEN VarsGet(h, h[id].prev, k)
    ELSE Err("KeyError")

\* Vars.__contains__
RECURSIVE VarsIn(_, _, _)
VarsIn(h, id, k) ==
    \/ h[id].data[k] # Absent
    \/ h[id].prev # 0 /\ VarsIn(h, h[id].prev, k)

\* Vars.__setitem__: a key the own dict holds keeps its value, with a warning
VarsSet(h, log, id, k, v) ==
    IF h[id].data[k] # Absent THEN [h |-> h, log |-> Warn(log, id)]
    ELSE [h |-> [h EXCEPT ![id].data[k] = v], log |-> log]

\* Vars.inject: a copy of the own dict of np, without its prev, is linked in
\* between the Vars and its prev
Inject(h, id, np) ==
    [Append(h, [data |-> h[np].data, prev |-> h[id].prev]) EXCEPT ![id].prev = Len(h) + 1]

\* MainEnv.__init__ (work.py): ivars and vars; vars_dyn is vars.  The Env is
\* named by its vars, the last object of the heap.  $fs is 0.001
MainEnv(h) ==
    Append(Append(h, [data |-> [k \in VarsKeys |->
                                   CASE k = "$fn" -> Num(999)
                                     [] k = "$fa" -> Num(0)
                                     [] k = "$fs" -> V("float", <<1, 1000>>)
                                     [] OTHER -> Absent],
                      prev |-> 0]),
           [data |-> [k \in VarsKeys |-> IF k = "$preview" THEN Num(0) ELSE Absent],
            prev |-> Len(h) + 1])

\* Eval._e__list on the statements i.. of file (eval.py), in Env env:
\* _e_assignment, _e_stmt_decl_fn, _e_stmt_decl_mod, _e_stmt_obj and _e_Use,
\* which evaluates the used file in a MainEnv of its own (_e_Input) and then
\* calls inject_vars: Vars.inject for vars and again for vars_dyn.
\* f: the Python calls left before RecursionError
RECURSIVE EvalStmts(_, _, _, _, _, _)
EvalStmts(h, log, env, file, i, f) ==
    IF i > Len(src[file]) THEN [h |-> h, log |-> log, r |-> None]
    ELSE LET x == src[file][i] IN
      CASE x.k \in {"var", "fn"} ->
             Let(VarsSet(h, log, env, x.n, V(x.k, <<file>>)), LAMBDA res :
                 EvalStmts(res.h, res.log, env, file, i + 1, f))
        [] x.k = "mod" ->
             IF VarsIn(h, env, x.n)
             THEN EvalStmts(h, Warn(log, env), env, file, i + 1, f)
             ELSE Let(VarsSet(h, log, env, x.n, V("mod", <<file>>)), LAMBDA res :
                      EvalStmts(res.h, res.log, env, file, i + 1, f))
        [] x.k = "obj" ->
             EvalStmts([h EXCEPT ![env].data["_e_children"] =
                                     Lst(Append(@.s, <<file, i>>))],
                       log, env, file, i + 1, f)
        [] OTHER ->
             IF f = 0 THEN [h |-> h, log |-> log, r |-> Err("RecursionError")]
             ELSE Let(VarsSet(MainEnv(h), log, Len(h) + 2, "_e_children", Lst(<<>>)),
                      LAMBDA ep :
                 Let(EvalStmts(ep.h, ep.log, Len(h) + 2, x.f, 1, f - 1), LAMBDA res :
                     IF IsErr(res.r) THEN res
                     ELSE EvalStmts(Inject(Inject(res.h, env, Len(h) + 2), env, Len(h) + 2),
                                    res.log, env, file, i + 1, f)))

\* _StaticRules._e__list on the statements i.. of the file (rules.py): the
\* static rules have no _e_Use, and eval raises RuntimeError for a rule that
\* is not implemented; an exception ends the pass.  The tables of the static
\* scopes hold the function under the name f and the module under the name h
RECURSIVE StaticStmts(_, _, _)
StaticStmts(st, log, i) ==
    IF i > Len(src[1]) THEN [h |-> st, log |-> log, r |-> None]
    ELSE LET x == src[1][i] IN
      CASE x.k = "var" ->
             Let(AddVar(st, SMain, x.n, ENum(1)), LAMBDA res :
                 IF IsErr(res.r) THEN [h |-> res.stat, log |-> log, r |-> res.r]
                 ELSE StaticStmts(res.stat, log, i + 1))
        [] x.k = "fn" ->
             IF st[SMain].funcs["f"] # EAbsent
             THEN StaticStmts(st, Warn(log, SMain), i + 1)
             ELSE StaticStmts([st EXCEPT ![SMain].funcs["f"] = ENum(1)], log, i + 1)
        [] x.k = "mod" ->
             IF st[SMain].mods["h"] # NoMod
             THEN StaticStmts(st, Warn(log, SMain), i + 1)
             ELSE StaticStmts([Append(st, StaticEnv(SMain)) EXCEPT
                                  ![SMain].mods["h"] = Len(st) + 1], log, i + 1)
        [] x.k = "obj" ->
             StaticStmts(LowerInst(st, SMain, Inst(FALSE, "", <<>>)).stat, log, i + 1)
        [] OTHER -> [h |-> st, log |-> log, r |-> Err("RuntimeError")]

\* file 1 is processed by a new evaluator, and then the name is looked up in
\* the scope of the file: Eval(MainEnv()).eval(tree), env[name]
UseOp(name) ==
    /\ calls = 0
    /\ \E res \in {Let(VarsSet(MainEnv(<<>>), <<>>, 2, "_e_children", Lst(<<>>)),
                       LAMBDA e : EvalStmts(e.h, e.log, 2, 1, 1, RecursionLimit))} :
          Done(res.h, res.log, "Use", 1, name,
               IF IsErr(res.r) THEN res.r ELSE VarsGet(res.h, 2, name))

\* file 1 is lowered by the static rules: process()
StaticUseOp ==
    /\ calls = 0
    /\ \E res \in {StaticStmts(<<BuiltinsEnv, StaticEnv(SBuiltins), StaticEnv(SMiddle),
                                 StaticEnv(SMain), StaticEnv(SMain), StaticEnv(SBody),
                                 StaticEnv(SChild)>>, <<>>, 1)} :
          Done(res.h, res.log, "StaticUse", 1, "", res.r)

InitUse ==
    /\ stat = <<>>
    /\ dyn = <<DynEnv(SMain, 0, 1, 0)>>
    /\ vm = <<EnvDefaults>>
    /\ built = NoBuilt
    /\ trace = <<>>
    /\ last = Idle
    /\ calls = 0
    /\ src \in [1..UseFiles ->
                  UNION {[1..k -> {Stmt("use", "", g) : g \in 1..UseFiles}
                                  \cup {Stmt(k2, n, 0) : k2 \in {"var", "fn", "mod"},
                                                         n \in UseNames}
                                  \cup {Stmt("obj", "", 0)}] : k \in 0..UseStmts}]
    /\ kernel = "strict"
    /\ cur_env = 0
    /\ withs = <<>>
    /\ main_env = 0

SpecUse == InitUse /\ [][(\E name \in UseNames : UseOp(name)) \/ StaticUseOp]_vars

----------------------------------------------------------------------------
(* process(f, preload=files, **kw).  src[i] is the namespace that exec      *)
(* leaves of preload file i: for each name what it is bound to, a value     *)
(* that is callable or not, and an int or float or not.                     *)

PreNames == {"f", "cube", "_g"}
PreOrder == <<"__builtins__", "f", "cube", "_g">>   \* the keys of d, in dict order
Underscore(n) == n \in {"__builtins__", "_g"}        \* n[0] == "_"
Defn(c, num) == [def |-> TRUE, c |-> c, num |-> num]
NoDefn == [def |-> FALSE, c |-> FALSE, num |-> FALSE]
HostFn(i) == [k |-> "host", n |-> "", v |-> i]       \* a value of preload file i
HostMod(i) == -1 - i                                  \* the same, in a mods dict

\* d[k] = v on a Python dict
DictSet(d, k, v) == [x \in DOMAIN d \cup {k} |-> IF x = k THEN v ELSE d[x]]

\* SpecialEnv.set_func, set_mod and set_var on the main scope, for a value
\* of preload file i (Env.set_func and Env.set_var assign the same, i = 0)
SetFunc(st, n, i) == [st EXCEPT ![SMain].funcs = DictSet(@, n, HostFn(i))]
SetModForgotten(st, n, i) == st
SetMod(st, n, i) == [st EXCEPT ![SMain].mods = DictSet(@, n, HostMod(i))]
SetVar(st, n, i) == [st EXCEPT ![SMain].vars = DictSet(@, n, HostFn(i))]

\* process: the loop over d.items() of preload file i, from key j on.  exec
\* adds __builtins__, a dict, to d
RECURSIVE PreloadItems(_, _, _)
PreloadItems(st, i, j) ==
    IF j > Len(PreOrder) THEN st
    ELSE LET n == PreOrder[j]
             v == IF n = "__builtins__" THEN Defn(FALSE, FALSE) ELSE src[i][n]
         IN  IF ~v.def \/ (Underscore(n) /\ ~v.num) THEN PreloadItems(st, i, j + 1)
             ELSE IF v.c THEN PreloadItems(SetMod(SetFunc(st, n, i), n, i), i, j + 1)
             ELSE PreloadItems(SetVar(st, n, i), i, j + 1)

\* process: the preload files in order, then the keyword arguments: Env.set_var
\* for a value, Env.set_func and Env.set_mod for a callable; set_mod assigns
\* to self.static._mods, an attribute no scope has
RECURSIVE Process(_, _, _)
Process(st, i, kw) ==
    IF i <= Len(src) THEN Process(PreloadItems(st, i, 1), i + 1, kw)
    ELSE IF kw = "" THEN [stat |-> st, r |-> None]
    ELSE IF kw = "value" THEN [stat |-> SetVar(st, "f", 0), r |-> None]
    ELSE [stat |-> SetFunc(st, "f", 0), r |-> Err("AttributeError")]

\* process(f, preload, **kw) on the Env that parse(f) returned
ProcessOp(kw) ==
    /\ calls = 0
    /\ \E res \in {Process(stat, 1, kw)} :
          Done(res.stat, trace, "process", SMain, kw, res.r)

\* the Env after parse: the source may have declared function f and module h
\* (_e_stmt_decl_fn and _e_stmt_decl_mod assign to the dicts of the main scope)
InitProcess ==
    /\ \E f \in {EAbsent, ENum(1)}, h \in {NoMod, SBody} :
          stat = <<BuiltinsEnv, StaticEnv(SBuiltins),
                   [StaticEnv(SMiddle) EXCEPT !.funcs["f"] = f, !.mods["h"] = h]>>
    /\ dyn = <<DynEnv(SMain, 0, 1, 0)>>
    /\ vm = <<EnvDefaults>>
    /\ built = NoBuilt
    /\ trace = <<>>
    /\ last = Idle
    /\ calls = 0
    /\ src \in UNION {[1..k -> [PreNames -> {NoDefn} \cup {Defn(c, num) : c, num \in BOOLEAN}]] :
                         k \in 1..MaxFiles}
    /\ kernel = "strict"
    /\ cur_env = 0
    /\ withs = <<>>
    /\ main_env = 0

SpecProcess == InitProcess /\ [][\E kw \in {"", "value", "callable"} : ProcessOp(kw)]_vars

----------------------------------------------------------------------------
(* $children:  module h($children) { { .. } }   h(..) { <block> }           *)
(* T, D, M, N as for the lookup of variables: D is the DynEnv of the        *)
(* statement calling h, to which ParentStatement.build_with attaches the    *)
(* child block (a block without statements gives a Statement, without       *)
(* child); Env.__init__ stores $children = 0, and _collect stores the value *)
(* of a parameter $children in the values of M.                             *)
InitChildren ==
    /\ \E p \in UNION {[1..k -> {"prim", "none", "fn", "scope"}] : k \in 0..MaxK} :
          /\ stat = [VarProgram EXCEPT ![SChild].work = Block(p, SNest2)]
          /\ dyn = [VarChain EXCEPT ![StmtEnv].child = IF p = <<>> THEN 0 ELSE SChild]
    /\ \E mv \in {NoVals, DictSet(NoVals, "$children", Num(5))} :
          vm = <<DictSet(EnvDefaults, "$children", Num(0)), mv, NoVals>>
    /\ built = NoBuilt
    /\ trace = <<>>
    /\ last = Idle
    /\ calls = 0
    /\ src = <<>>
    /\ kernel \in Kernels
    /\ cur_env = 0
    /\ withs = <<>>
    /\ main_env = 0

SpecChildren == InitChildren /\ [][\E e \in 1..NestEnv : VarOp(e, "$children")]_vars

----------------------------------------------------------------------------
(* Tracing.  src[o] says what object o is: a Shape, an Axis, an Axis equal  *)
(* to Axis.X, or an int.  The Env carries _tcache (0: the id of the object  *)
(* is no key) and _tnext.  An entry of trace is a printed line; each name   *)
(* in it is kept together with the object it was printed for.               *)

TraceEnv ==
    DictSet(DictSet(DynEnv(SMain, 0, 1, 0), "tcache", [o \in 1..MaxObj |-> 0]), "tnext", 1)
Bool(b) == V("bool", <<b>>)

\* vn(obj) of Env.trace_ (main.py), on the Env E with the lines out printed:
\* the name "o_" followed by the number under which the object is cached.  A
\* new Axis is announced on a line of its own; for a cached Axis the cache
\* entry, a pair, is formatted as it is
Vn(E, out, o) ==
    CASE src[o] = "AxisX" -> [E |-> E, out |-> out, name |-> [k |-> "Axis.X", n |-> 0, o |-> o]]
      [] src[o] = "int" -> [E |-> E, out |-> out, name |-> [k |-> "repr", n |-> 0, o |-> o]]
      [] src[o] = "Axis" /\ E.tcache[o] # 0 ->
            [E |-> E, out |-> out, name |-> [k |-> "o_pair", n |-> E.tcache[o], o |-> o]]
      [] OTHER ->
            IF E.tcache[o] # 0
            THEN [E |-> E, out |-> out, name |-> [k |-> "o_", n |-> E.tcache[o], o |-> o]]
            ELSE [E |-> [E EXCEPT !.tcache[o] = E.tnext, !.tnext = E.tnext + 1],
                  out |-> IF src[o] = "Axis"
                          THEN Append(out, [res |-> [k |-> "o_", n |-> E.tnext, o |-> o],
                                            op |-> "Axis", names |-> <<>>])
                          ELSE out,
                  name |-> [k |-> "o_", n |-> E.tnext, o |-> o]]

\* the names of the objects os, left to right, appended to names
RECURSIVE VnAll(_, _, _, _)
VnAll(E, out, os, names) ==
    IF os = <<>> THEN [E |-> E, out |-> out, names |-> names]
    ELSE Let(Vn(E, out, Head(os)), LAMBDA v :
             VnAll(v.E, v.out, Tail(os), Append(names, v.name)))

\* Env.trace_(a, kw) with a = (res, op, *args) and kw = {_obj: obj}, obj = 0
\* for none: "_diff" is printed with the sign of "_inter"
Trace_(E, out, res, op, args, obj) ==
    Let(Vn(E, out, res), LAMBDA r :
        IF op \in {"_add", "_inter", "_diff"}
        THEN Let(VnAll(r.E, r.out, args, <<>>), LAMBDA a :
                 [E |-> a.E,
                  out |-> Append(a.out, [res |-> r.name,
                                         op |-> IF op = "_add" THEN "+" ELSE "&",
                                         names |-> a.names])])
        ELSE Let(VnAll(r.E, r.out, IF obj = 0 THEN args ELSE <<obj>> \o args, <<>>),
                 LAMBDA a : [E |-> a.E,
                             out |-> Append(a.out, [res |-> r.name,
                                                    op |-> IF obj = 0 THEN op ELSE "." \o op,
                                                    names |-> a.names])]))

\* NullEnv.trace called on the Env: nothing unless $trace is true
TraceOp(res, op, args, obj) ==
    /\ calls < MaxTrace
    /\ IF vm[1]["$trace"] # Bool(TRUE)
       THEN /\ last' = [op |-> "trace", e |-> TopEnv, n |-> op, i |-> None, r |-> None]
            /\ UNCHANGED <<dyn, trace>>
       ELSE IF main_env = 0
       THEN /\ last' = [op |-> "trace", e |-> TopEnv, n |-> op, i |-> None,
                        r |-> Err("LookupError")]
            /\ UNCHANGED <<dyn, trace>>
       ELSE \E t \in {Trace_(dyn[main_env], trace, res, op, args, obj)} :
               /\ dyn' = [dyn EXCEPT ![main_env] = t.E]
               /\ trace' = t.out
               /\ last' = [op |-> "trace", e |-> TopEnv, n |-> op, i |-> None, r |-> None]
    /\ calls' = calls + 1
    /\ UNCHANGED <<stat, vm, built, src, kernel, cur_env, withs, main_env>>

\* with env.tracing(): is entered (nothing has been printed before)
TracingOp ==
    /\ main_env = 0
    /\ trace = <<>>
    /\ main_env' = TopEnv
    /\ vm' = [vm EXCEPT ![1]["$trace"] = Bool(TRUE)]
    /\ last' = [op |-> "tracing", e |-> TopEnv, n |-> "", i |-> None, r |-> None]
    /\ UNCHANGED <<stat, dyn, built, trace, calls, src, kernel, cur_env, withs>>

\* the with block is left
TracingEndOp ==
    /\ main_env # 0
    /\ main_env' = 0
    /\ vm' = [vm EXCEPT ![1]["$trace"] = Bool(FALSE)]
    /\ dyn' = [dyn EXCEPT ![TopEnv].tcache = [o \in 1..MaxObj |-> 0]]
    /\ last' = [op |-> "tracing_end", e |-> TopEnv, n |-> "", i |-> None, r |-> None]
    /\ UNCHANGED <<stat, built, trace, calls, src, kernel, cur_env, withs>>

InitTrace ==
    /\ stat = <<BuiltinsEnv, StaticEnv(SBuiltins), StaticEnv(SMiddle)>>
    /\ dyn = <<TraceEnv>>
    /\ vm = <<DictSet(EnvDefaults, "$trace", Bool(FALSE))>>
    /\ built = NoBuilt
    /\ trace = <<>>
    /\ last = Idle
    /\ calls = 0
    /\ src \in [1..MaxObj -> {"Shape", "Axis", "AxisX", "int"}]
    /\ kernel = "strict"
    /\ cur_env = 0
    /\ withs = <<>>
    /\ main_env = 0

SpecTrace ==
    InitTrace /\ [][\/ TracingOp
                    \/ TracingEndOp
                    \/ \E res \in 1..MaxObj, op \in {"_add", "_diff", "rotate"},
                          args \in UNION {[1..k -> 1..MaxObj] : k \in 1..2},
                          obj \in 0..MaxObj : TraceOp(res, op, args, obj)]_vars

-----------------------------------------------------------------------------
(* Postfix expressions: a primary followed by index suffixes, x[i][j].       *)

Str(s) == V("str", s)                   \* a Python str, one entry per character
Flt(n, d) == V("float", <<n, d>>)       \* a Python float n/d that is not whole

\* the literals a primary of a postfix expression is drawn from: pr_Num,
\* pr_true, pr_false, pr_undef, pr_vec_empty, pr_vec_elems, pr_Str
Primaries ==
    <<Num(0), Num(5), Bool(TRUE), Bool(FALSE), None, Flt(1, 2),
      V("tuple", <<>>), Lst(<<Num(7)>>), Lst(<<Num(7), Lst(<<Num(8)>>)>>),
      Lst(<<Lst(<<Num(7), Num(8)>>), Str(<<"a", "b">>)>>),
      Str(<<>>), Str(<<"a">>), Str(<<"a", "b">>)>>

\* the literals an index expression is drawn from
IndexExprs ==
    <<Num(0 - 3), Num(0 - 2), Num(0 - 1), Num(0), Num(1), Num(2),
      Bool(TRUE), Bool(FALSE), None, Flt(1, 2), Lst(<<>>), Str(<<"a">>)>>

\* x[i] of Python, for the values above
GetItem(x, i) ==
    IF x.t \notin {"list", "tuple", "str"} THEN Err("TypeError")
    ELSE IF i.t \notin {"num", "bool"} THEN Err("TypeError")
    ELSE LET k == IF i.t = "bool" THEN (IF i.s[1] THEN 1 ELSE 0) ELSE i.s[1]
             p == IF k < 0 THEN k + Len(x.s) ELSE k
         IN  IF p < 0 \/ p >= Len(x.s) THEN Err("IndexError")
             ELSE IF x.t = "str" THEN Str(<<x.s[p + 1]>>)
             ELSE x.s[p + 1]

\* _e_add_index.ind: the indices applied one after the other
RECURSIVE Ind(_, _)
Ind(idx, x) ==
    IF idx = <<>> THEN x
    ELSE Let(GetItem(x, Head(idx)),
             LAMBDA y : IF IsErr(y) THEN y ELSE Ind(Tail(idx), y))

\* _DynRules._e_add_index on a node of len children whose n[1] is the literal
\* IndexExprs[i], applied to x: a node of two children gives lambda x: x();
\* otherwise one index per two children, each of them the value of n[1]
AddIndex(len, i, x) ==
    IF len = 2 THEN Err("TypeError")
    ELSE Ind([j \in 1..((len - 1) \div 2) |-> IndexExprs[i]], x)

\* _DynRules._e_call: the primary, then the suffixes from left to right
RECURSIVE Call(_, _)
Call(res, sfx) ==
    IF sfx = <<>> THEN res
    ELSE Let(AddIndex(Head(sfx).len, Head(sfx).i, res),
             LAMBDA y : IF IsErr(y) THEN y ELSE Call(y, Tail(sfx)))

\* the expression src.x src.sfx[1] .. is evaluated
CallOp ==
    /\ calls = 0
    /\ \E r \in {Call(Primaries[src.x], src.sfx)} :
          Done(stat, trace, "call", SMain, "", r)

Suffixes ==
    {[len |-> 2, i |-> 1]} \cup
    {[len |-> l, i |-> i] : l \in {3, 5}, i \in 1..Len(IndexExprs)}

InitIndex ==
    /\ stat = <<BuiltinsEnv, StaticEnv(SBuiltins), StaticEnv(SMiddle)>>
    /\ src \in {[x |-> x, sfx |-> sfx] :
                  x \in 1..Len(Primaries),
                  sfx \in UNION {[1..k -> Suffixes] : k \in 1..MaxSuffix}}
    /\ dyn = <<DynEnv(SMain, 0, 1, 0)>>
    /\ vm = <<EnvDefaults>>
    /\ built = NoBuilt
    /\ trace = <<>>
    /\ last = Idle
    /\ calls = 0
    /\ kernel = "strict"
    /\ cur_env = 0
    /\ withs = <<>>
    /\ main_env = 0

SpecIndex == InitIndex /\ [][CallOp]_vars

-----------------------------------------------------------------------------
(* The comparison of the results of a test model.  Volumes and tolerances   *)
(* are counted in units of half the default tolerance.                      *)

DefaultTol == 2                          \* Res.tolerance = 0.001

Abs(x) == IF x < 0 THEN 0 - x ELSE x
NoVolume == 0 - 1                        \* no such result, or no preset

\* Res.add: a result that is None is not recorded
Add(models, name, v) ==
    IF v = NoVolume THEN models ELSE Append(models, [n |-> name, v |-> v])

\* testcase: the results in the order they are added, the preset volume and
\* the tolerance of the model's Python file
Testcase(py, parser, scad, preset, tol) ==
    [models |-> Add(Add(Add(<<>>, "python", py), "parser", parser), "openscad", scad),
     preset |-> preset, tolerance |-> tol]

RECURSIVE SumVol(_)
SumVol(models) == IF models = <<>> THEN 0 ELSE Head(models).v + SumVol(Tail(models))

MaxOf(models) ==
    CHOOSE x \in {models[i].v : i \in 1..Len(models)} :
       \A i \in 1..Len(models) : models[i].v <= x

\* the volumes the sum of the models may have: a union is no smaller than
\* any of its operands and no larger than all of them together
UnionVolumes(models) ==
    IF models = <<>> THEN {NoVolume} ELSE MaxOf(models)..SumVol(models)

\* the shape branch of _test with the union's volume left out of every
\* comparison
TestShapesNoSum(res) ==
    LET vn == IF res.preset # NoVolume THEN res.preset
              ELSE res.models[Len(res.models)].v
        v == IF res.preset # NoVolume THEN res.models
             ELSE SubSeq(res.models, 1, Len(res.models) - 1)
    IN  IF \A i \in 1..Len(v) : Abs(vn - v[i].v) < res.tolerance
        THEN None ELSE Err("AssertionError")

\* the shape branch of _test: the volumes v, their sum msum, the reference
\* vn (the preset, or the last result, which is taken off v)
TestShapes(res) ==
    LET vn == IF res.preset # NoVolume THEN res.preset
              ELSE res.models[Len(res.models)].v
        v == IF res.preset # NoVolume THEN res.models
             ELSE SubSeq(res.models, 1, Len(res.models) - 1)
    IN  IF /\ ~res.no_add => Abs(res.msum - vn) < res.tolerance
           /\ \A i \in 1..Len(v) :
                 /\ Abs(vn - v[i].v) < res.tolerance
                 /\ ~res.no_add => Abs(res.msum - v[i].v) < res.tolerance
        THEN None ELSE Err("AssertionError")

\* the numeric branch of _test: the reference is the preset or the first
\* result, every other result is compared with it
TestNumeric(res) ==
    LET vn == IF res.preset # NoVolume THEN res.preset ELSE res.models[1].v
        v == IF res.preset # NoVolume THEN res.models ELSE Tail(res.models)
    IN  IF \A i \in 1..Len(v) : Abs(vn - v[i].v) < res.tolerance
        THEN None ELSE Err("AssertionError")

\* _test
Test(res) ==
    IF Len(res.models) < 2 THEN Err("ValueError")
    ELSE IF res.numeric THEN TestNumeric(res)
    ELSE TestShapes(res)

\* the results of the test model src are compared
TestOp ==
    /\ calls = 0
    /\ Done(stat, trace, "_test", SMain, "", Test(src))

Volumes == 0..MaxVol

InitTest ==
    /\ stat = <<BuiltinsEnv, StaticEnv(SBuiltins), StaticEnv(SMiddle)>>
    /\ \E py, parser, scad, preset \in Volumes \cup {NoVolume},
          tol \in 1..(DefaultTol + 1), numeric, no_add \in BOOLEAN :
          \E res \in {Testcase(py, parser, scad, preset, tol)} :
             \E msum \in IF no_add \/ numeric THEN {NoVolume}
                         ELSE UnionVolumes(res.models) :
                src = [models |-> res.models, preset |-> res.preset,
                       tolerance |-> res.tolerance, numeric |-> numeric,
                       no_add |-> no_add, msum |-> msum]
    /\ dyn = <<DynEnv(SMain, 0, 1, 0)>>
    /\ vm = <<EnvDefaults>>
    /\ built = NoBuilt
    /\ trace = <<>>
    /\ last = Idle
    /\ calls = 0
    /\ kernel = "strict"
    /\ cur_env = 0
    /\ withs = <<>>
    /\ main_env = 0

SpecTest == InitTest /\ [][TestOp]_vars

-----------------------------------------------------------------------------
(* if (guard) then-statement [else else-statement].  src names the value of *)
(* the guard and the results of the branches; the log lists the children    *)
(* of the node that were evaluated, in order.                               *)

\* bool(v) of Python
Truthy(v) ==
    ~ \/ v.t = "None"
      \/ v.t = "bool" /\ ~v.s[1]
      \/ v.t = "num" /\ v.s[1] = 0
      \/ v.t \in {"list", "tuple", "str"} /\ Len(v.s) = 0

\* what the evaluation of a guard gives: a value, or the error of a name
\* that is not defined
Guards == Primaries \o <<Err("KeyError")>>

\* what the evaluation of a branch gives
Branches == <<None, Shp(<<1>>), Shp(<<2>>), Err("KeyError")>>

NoElse == 0

\* an _e_ifelse_statement that evaluates both branches before it chooses
EvalIfElseEager(x) ==
    LET g == Guards[x.guard]
    IN  IF IsErr(g) THEN [r |-> g, log |-> <<<<2, 0>>>>]
        ELSE IF x.else = NoElse
        THEN [r |-> IF Truthy(g) THEN Branches[x.then] ELSE None,
              log |-> <<<<2, 0>>, <<4, 0>>>>]
        ELSE [r |-> IF Truthy(g) THEN Branches[x.then] ELSE Branches[x.else],
              log |-> <<<<2, 0>>, <<4, 0>>, <<6, 0>>>>]

\* Eval._e_ifelse_statement (and its copy in XXX_Eval): n has five children
\* without an else and seven with one; n[2] is the guard, n[4] and n[6] the
\* branches
EvalIfElse(x) ==
    LET g == Guards[x.guard]
    IN  IF IsErr(g) THEN [r |-> g, log |-> <<<<2, 0>>>>]
        ELSE IF Truthy(g)
        THEN [r |-> Branches[x.then], log |-> <<<<2, 0>>, <<4, 0>>>>]
        ELSE IF x.else = NoElse THEN [r |-> None, log |-> <<<<2, 0>>>>]
        ELSE [r |-> Branches[x.else], log |-> <<<<2, 0>>, <<6, 0>>>>]

\* StaticEnv.eval of the statement: _StaticRules has no _e_ifelse_statement
StaticIfElse(x) == [r |-> Err("RuntimeError"), log |-> <<>>]

\* the statement src is evaluated, by Eval or by the static scope
IfElseOp(pass) ==
    /\ calls = 0
    /\ \E res \in {IF pass = "Eval" THEN EvalIfElse(src) ELSE StaticIfElse(src)} :
          Done(stat, res.log, "ifelse_statement", SMain, pass, res.r)

InitIf ==
    /\ stat = <<BuiltinsEnv, StaticEnv(SBuiltins), StaticEnv(SMiddle)>>
    /\ src \in [guard : 1..Len(Guards), then : 1..Len(Branches),
                else : {NoElse} \cup 1..Len(Branches)]
    /\ dyn = <<DynEnv(SMain, 0, 1, 0)>>
    /\ vm = <<EnvDefaults>>
    /\ built = NoBuilt
    /\ trace = <<>>
    /\ last = Idle
    /\ calls = 0
    /\ kernel = "strict"
    /\ cur_env = 0
    /\ withs = <<>>
    /\ main_env = 0

SpecIf == InitIf /\ [][\E pass \in {"Eval", "Static"} : IfElseOp(pass)]_vars

----------------------------------------------------------------------------
(* Properties of the child cache and of build                              *)

\* what a statement of a block yields when nothing raises
Expected(item) ==
    CASE item.kind = "Scope" -> Shp(<<8, 9>>)
      [] item.mod = "union" -> None
      [] item.arg.k = "num" -> Shp(<<item.arg.v>>)
      [] OTHER -> Shp(<<7>>)

\* the union of the statements of a block, from what each one yields
RECURSIVE Boxes(_)
Boxes(items) ==
    IF items = <<>> THEN <<>>
    ELSE (IF Expected(Head(items)) = None THEN <<>> ELSE Expected(Head(items)).s)
         \o Boxes(Tail(items))
ExpectedUnion(items) ==
    IF \A j \in 1..Len(items) : Expected(items[j]) = None THEN None
    ELSE Shp(Boxes(items))

ChildWork(e) == stat[dyn[e].child].work
\* the last operation was children(i) with 0 <= i < k on a DynEnv with a child
\* block whose i-th statement raises nothing when built there
ChildInRange ==
    /\ last.op = "children" /\ last.i.t = "num"
    /\ dyn[last.e].child # 0
    /\ last.i.s[1] < Len(ChildWork(last.e))
    /\ ChildWork(last.e)[last.i.s[1] + 1].arg.k # "call"

\* C1: within one DynEnv with a child block each child is built at most once;
\* the first access, also by children(i), stores the result in slot i and
\* every access returns what the slot holds.
C1_ChildBuiltOnceAndCached ==
    /\ \A j \in 1..MaxK : built[SChild][j] <= 1
    /\ ChildInRange =>
          /\ dyn[last.e].cres[last.i.s[1] + 1] # Unknown
          /\ last.r = dyn[last.e].cres[last.i.s[1] + 1]

\* C3: children(i) with i >= k, or with no child block, is None, raises
\* nothing and builds no child.
C3_PastEndIsNone ==
    (/\ last.op = "children"
     /\ \/ dyn[last.e].child = 0
        \/ /\ last.i.t = "num"
           /\ last.i.s[1] >= Len(ChildWork(last.e)))
    => (last.r = None /\ trace = <<>>)

C3_Witness ==
    /\ last.op = "children" /\ last.i.t = "num"
    /\ dyn[last.e].child # 0
    /\ last.i.s[1] >= Len(ChildWork(last.e))
    /\ last.r = None

C3_WitnessNoChild ==
    /\ last.op = "children" /\ dyn[last.e].child = 0 /\ last.r = None

\* no statement of the child block of e raises when built there
NoCallIn(e) == \A j \in 1..Len(ChildWork(e)) : ChildWork(e)[j].arg.k # "call"

\* C4: children() without an index is child_union(), the union of the
\* non-None children in order; children(i) is the i-th child.
C4_ChildrenIsUnionOrIth ==
    /\ (/\ last.op = "children" /\ last.i = None
        /\ dyn[last.e].child # 0 /\ NoCallIn(last.e))
       => last.r = ExpectedUnion(ChildWork(last.e))
    /\ ChildInRange => last.r = Expected(ChildWork(last.e)[last.i.s[1] + 1])

\* C10: build evaluates every work item of the scope exactly once, in the
\* order of the work list, and returns the left-to-right union of the
\* non-None results (None if there is none).
BuiltOf(s) == SelectSeq(trace, LAMBDA t : t[1] = s)
C10_BuildInOrder ==
    last.op = "build" =>
        LET work == stat[dyn[last.e].static].work
        IN  /\ BuiltOf(dyn[last.e].static) =
                   [j \in 1..Len(work) |-> <<dyn[last.e].static, j>>]
            /\ last.r = ExpectedUnion(work)

C10_Witness ==
    /\ last.op = "build"
    /\ Len(stat[dyn[last.e].static].work) = 2
    /\ stat[dyn[last.e].static].work[1].mod = "union"
    /\ last.r = Shp(<<2>>)

C10_WitnessNone ==
    /\ last.op = "build" /\ last.r = None
    /\ Len(stat[dyn[last.e].static].work) = 0

\* the children() call of the body of h: its index and the child block
BodyCall == stat[CallScope(Len(stat) - SChild - 1)].work[1].arg
HasChildBlock == stat[SMain].work[1].kind = "ParentStatement"

\* C2: in the body of a user module children(i) is the i-th item of the child
\* block of the module's call site, whatever number of statements lies
\* between the module and the children() call.
C2_ChildrenOfCallSite ==
    (/\ last.op = "build" /\ last.e = TopEnv
     /\ HasChildBlock
     /\ BodyCall.k = "num" /\ BodyCall.v < Len(stat[SChild].work)
     /\ stat[SChild].work[BodyCall.v + 1].arg.k # "call")
    => last.r = Expected(stat[SChild].work[BodyCall.v + 1])

\* C7: $x assigned in the body of h is seen by f() called from the child
\* block when h invokes children(): h() cube(f()) is the cube of 7.
C7_DollarCrossesChildren ==
    (/\ last.op = "build" /\ last.e = TopEnv
     /\ HasChildBlock
     /\ Len(stat[SChild].work) = 1
     /\ stat[SChild].work[1].arg.k = "call"
     /\ BodyCall.k = "none")
    => last.r = Shp(<<7>>)

----------------------------------------------------------------------------
(* Properties of variable lookup                                            *)

Plain == {"a", "b"}
BodyFor(e, n) == StaticVar(dyn[e].static, n).body

\* n is defined through itself: directly, or through one more variable
Cyclic(e, n) ==
    /\ BodyFor(e, n) # EAbsent /\ BodyFor(e, n).k = "add"
    /\ \/ BodyFor(e, n).n = n
       \/ LET b2 == BodyFor(e, BodyFor(e, n).n)
          IN  b2 # EAbsent /\ b2.k = "add" /\ b2.n = n

\* C5: looking up a variable that is defined through itself (a = a + 1, or
\* a -> b -> a) ends with the error 'Recursive variable'.
C5_CycleIsRecursiveVariable ==
    (last.op = "var" /\ Cyclic(last.e, last.n))
    => last.r = Err("RecursiveVariable")

\* the value for name n that the nearest DynEnv from e up the caller chain
\* holds in its values map
RECURSIVE NearestVal(_, _)
NearestVal(e, n) ==
    IF e = 0 THEN Absent
    ELSE IF vm[dyn[e].vars][n] # Absent THEN vm[dyn[e].vars][n]
    ELSE NearestVal(dyn[e].dyn, n)

RECURSIVE NoCallerDefines(_, _)
NoCallerDefines(e, n) ==
    e = 0 \/ (BodyFor(e, n) = EAbsent /\ NoCallerDefines(dyn[e].dyn, n))

LooksUp(n) == calls' = calls + 1 /\ last'.op = "var" /\ last'.n = n
              /\ vm[dyn[last'.e].vars][n] = Absent

\* C6: a $-name without a value in the DynEnv's own map gets the value of the
\* nearest caller that has one; with no value on the caller chain and no
\* definition in a caller's scope it gets the definition of the static chain,
\* KeyError if there is none.  Any other name gets the definition of the
\* static chain, whatever the callers hold.
C6_DollarNamesFollowCallers ==
    [][/\ \A n \in DynNames \ Plain :
            LooksUp(n) =>
               LET c == dyn[last'.e].dyn IN
               /\ NearestVal(c, n) # Absent => last'.r = NearestVal(c, n)
               /\ (NearestVal(c, n) = Absent /\ NoCallerDefines(c, n)) =>
                     last'.r = IF BodyFor(last'.e, n) = EAbsent THEN Err("KeyError")
                               ELSE Num(BodyFor(last'.e, n).v)
       /\ \A n \in Plain :
            LooksUp(n) =>
               last'.r = IF BodyFor(last'.e, n) = EAbsent THEN Err("KeyError")
                         ELSE Num(BodyFor(last'.e, n).v)
      ]_vars

\* $x looked up in N: M holds 6, T holds 5, the body of h assigns 7
C6_Witness ==
    /\ last.op = "var" /\ last.e = NestEnv /\ last.n = "$x" /\ last.r = Num(6)
    /\ vm[dyn[TopEnv].vars]["$x"] = Num(5)
    /\ stat[SBody].vars["$x"] = ENum(7)

\* b looked up in N: M holds 5, and the result is the static definition
C6_WitnessPlain ==
    /\ last.op = "var" /\ last.e = NestEnv /\ last.n = "b"
    /\ vm[dyn[ModEnv].vars]["b"] = Num(5)
    /\ last.r \in {Num(1), Err("KeyError")}

\* the assignment to n in the source, EAbsent if there is none
SourceBody(n) ==
    IF \E j \in 1..Len(src) : src[j].n = n
    THEN src[CHOOSE j \in 1..Len(src) : src[j].n = n].b
    ELSE EAbsent

\* the value of n by the assignments of the source, read as equations
RECURSIVE Denotes(_, _)
Denotes(n, d) ==
    IF SourceBody(n) = EAbsent \/ n \notin Plain \/ d = 0 THEN Absent
    ELSE IF SourceBody(n).k = "num" THEN Num(SourceBody(n).v)
    ELSE IF Denotes(SourceBody(n).n, d - 1) = Absent THEN Absent
    ELSE Num(Denotes(SourceBody(n).n, d - 1).s[1] + SourceBody(n).v)

\* C8: a variable has the value its assignments give it as equations, in
\* whatever order they stand in the scope; a = b + 1; b = 1; gives a = 2.
C8_AssignmentOrderIrrelevant ==
    (last.op = "var" /\ Denotes(last.n, MaxAssign) # Absent)
    => last.r = Denotes(last.n, MaxAssign)

\* the same for assignments in the body of a module
NestedAssignmentOrderIrrelevant ==
    (last.op = "var" /\ Denotes(last.n, MaxAssign) # Absent
     /\ stat[SBody].vars # NoVars)
    => last.r = Denotes(last.n, MaxAssign)

\* C9: declaring a name again in the same scope warns, raises nothing and
\* leaves the three tables of every scope as they were.
C9_RedeclarationWarnsKeepsFirst ==
    [][(calls' = calls + 1 /\ Declared(stat, last'.op, last'.e, last'.n))
       => (~IsErr(last'.r) /\ Len(trace') = Len(trace) + 1 /\ stat' = stat)]_vars

----------------------------------------------------------------------------
(* Properties of the CSG built-ins (SpecCsg).                               *)

CsgOp == stat[SMain].work[1].mod
CsgBlock ==
    IF stat[SMain].work[1].kind = "ParentStatement" THEN stat[SChild].work ELSE <<>>

\* what each child of the block denotes:  cube(j);  is the box j,  union();
\* is None,  { cube(8); cube(9); }  is the union of the boxes 8 and 9
ChildValue(item) ==
    IF item.kind = "Scope" THEN Shp(<<8, 9>>)
    ELSE IF item.mod = "union" THEN None
    ELSE Shp(<<item.arg.v>>)
CsgValues == [j \in 1..Len(CsgBlock) |-> ChildValue(CsgBlock[j])]
AllNone == \A j \in 1..Len(CsgBlock) : CsgValues[j] = None

\* the operation on a list of shapes, left to right
RECURSIVE Combine(_, _, _)
Combine(op, l, res) ==
    IF l = <<>> THEN res
    ELSE Combine(op, Tail(l),
                 CASE op = "union" -> ShapeAdd(res, Head(l))
                   [] op = "difference" -> ShapeSub(res, Head(l))
                   [] OTHER -> ShapeAnd(res, Head(l)))
ExpectedCsg ==
    LET l == SelectSeq(CsgValues, LAMBDA c : c # None)
    IN  IF l = <<>> THEN None ELSE Combine(CsgOp, Tail(l), Head(l))

\* C11: union(), difference() and intersection() without a child block, or
\* with a child block whose children are all None, return None and raise
\* nothing.
C11_NoChildrenIsNone ==
    (last.op = "build" /\ AllNone) => last.r = None

\* C12: difference() with exactly one child returns that child's shape
\* itself, not a list and not a modified shape; in Env.difference of
\* work.py as well as in _Mods.difference.
C12_DifferenceOfOneIsTheChild ==
    (/\ last.op \in {"build", "work_difference"}
     /\ CsgOp = "difference"
     /\ Len(CsgBlock) = 1)
    => last.r = CsgValues[1]

\* C13: with at least one child that is not None, the three operations give
\* what they give on the children that are not None, taken in order, and
\* no kernel operator is handed None.
C13_NoneChildrenAreSkipped ==
    (last.op = "build" /\ ~AllNone)
    => /\ last.r = ExpectedCsg
       /\ \A i \in 1..Len(trace) : trace[i] # <<0, 0>>

----------------------------------------------------------------------------
(* Properties of for / intersection_for (SpecFor).                          *)

ForOp == stat[SMain].work[1].mod
ForArgs == stat[SMain].work[1].arg.a
ForHasBlock == stat[SMain].work[1].kind = "ParentStatement"

\* the values a stepper stands for: lo, lo + step, .. up to hi for a range,
\* the elements for a vector
StepperValues(x) ==
    IF x.hi < x.lo THEN <<>>
    ELSE IF x.k = "vec" THEN [i \in 1..(x.hi - x.lo + 1) |-> x.lo + i - 1]
    ELSE [i \in 1..((x.hi - x.lo) \div x.step + 1) |-> x.lo + (i - 1) * x.step]

\* C14: for over the range [a : b] with step s > 0 builds its child for a,
\* a + s, a + 2s, .. <= b in increasing order, and for no value above b:
\* with the child cube(a) the result is the union of these boxes.
C14_ForRangeStopsAtEnd ==
    (/\ last.op = "build" /\ ForOp = "for" /\ ForHasBlock
     /\ Len(ForArgs) = 1 /\ ForArgs[1].x.k = "range")
    => last.r = (IF StepperValues(ForArgs[1].x) = <<>> THEN None
                 ELSE Shp(StepperValues(ForArgs[1].x)))

RECURSIVE Product(_)
Product(l) == IF l = <<>> THEN 1 ELSE Len(Head(l)) * Product(Tail(l))
Occurrences(l, v) == Cardinality({i \in 1..Len(l) : l[i] = v})
ForValues == [i \in 1..Len(ForArgs) |-> StepperValues(ForArgs[i].x)]

\* C15: for / intersection_for builds its child once for every tuple of the
\* product of the value sequences, each variable bound to its component,
\* and combines the results: the child cube(a) is built Product times, and
\* the value v of the first variable gives as many boxes v as there are
\* tuples with that component.
C15_ForCoversProduct ==
    (last.op = "build" /\ ForHasBlock)
    => /\ Occurrences(trace, <<SChild, 1>>) = Product(ForValues)
       /\ IF Product(ForValues) = 0 THEN last.r = None
          ELSE /\ last.r.t = "Shape"
               /\ \A v \in 0..MaxVal :
                     Occurrences(last.r.s, v)
                       = Occurrences(ForValues[1], v) * Product(Tail(ForValues))

----------------------------------------------------------------------------
(* Properties of argument binding (SpecCall).                               *)

CallArgs == stat[SMain].work[1].arg.a
HDeclared == stat[SMain].mods["h"] # NoMod
PosArgs == SelectSeq(CallArgs, LAMBDA a : a.name = "")
KwArgs(n) == SelectSeq(CallArgs, LAMBDA a : a.name = n)
CallerBinds(n) == n = "$x" /\ vm[TopEnv]["$x"] # Absent

\* the j-th declared parameter gets a positional argument, a keyword or
\* a default, and not both of the first two; no keyword is given twice
Covered(j) ==
    j <= Len(PosArgs) \/ KwArgs(src[j].name) # <<>> \/ src[j].def # EAbsent
WellFormedCall ==
    /\ \A n \in {"a", "b"} : Len(KwArgs(n)) <= 1
    /\ \A j \in 1..Len(src) : ~(j <= Len(PosArgs) /\ KwArgs(src[j].name) # <<>>)
BoundValue(j) ==
    IF j <= Len(PosArgs) THEN PosArgs[j].x.v
    ELSE IF KwArgs(src[j].name) # <<>> THEN KwArgs(src[j].name)[1].x.v
    ELSE IF src[j].def # EAbsent THEN src[j].def.v
    ELSE 9

\* C16: a declaration with defaults is lowered; in a call the j-th
\* positional argument goes to the j-th declared parameter, a keyword to the
\* parameter it names, the default to the others, and positional arguments
\* beyond the parameters are dropped while the call completes: the body
\* cube(p1); cube(p2); gives the boxes of these values.
C16_ArgumentsBindInOrder ==
    /\ last.op = "stmt_decl_mod" => last.r = None
    /\ (/\ last.op = "build" /\ HDeclared /\ WellFormedCall
        /\ \A j \in 1..Len(src) : Covered(j))
       => last.r = (IF src = <<>> THEN None
                    ELSE Shp([j \in 1..Len(src) |-> BoundValue(j)]))

\* C17: a parameter without default, keyword and positional argument does
\* not make the call fail: a $ name the caller binds takes the caller's
\* value, the others are bound to None.
C17_MissingArgumentIsUndef ==
    (/\ last.op = "build" /\ HDeclared /\ WellFormedCall
     /\ Len(PosArgs) <= Len(src)
     /\ \E j \in 1..Len(src) : ~Covered(j))
    => /\ last.r.t = "Shape"
       /\ \A j \in 1..Len(src) :
             (Covered(j) \/ CallerBinds(src[j].name)) => last.r.s[j] = BoundValue(j)

----------------------------------------------------------------------------
(* Properties of cur_env (SpecEnter).                                       *)

StillEntered(e) == \E k \in 1..Len(withs) : withs[k].e = e

\* C18: with blocks being nested, the __exit__ that matches an __enter__
\* leaves in cur_env the value it had before that __enter__, also for an
\* environment entered again and for an exit by an exception; after its
\* outermost exit the token of the environment is cleared.  (An __enter__
\* that raises enters nothing, has no __exit__ and changes nothing.)
C18_CurEnvIsAStack ==
    /\ last.op = "__exit__" =>
          /\ cur_env = last.i.s[1]
          /\ ~StillEntered(last.e) =>
                dyn[last.e].token = NoToken /\ dyn[last.e].recurse = 0
    /\ (last.op = "__enter__" /\ IsErr(last.r)) => cur_env = last.i.s[1]

\* an environment entered twice, inside another one, is left once by an
\* exception
C18_Witness ==
    /\ last.op = "__exit__" /\ last.n = "exception"
    /\ StillEntered(last.e)
    /\ \E k \in 1..Len(withs) : withs[k].e # last.e
    /\ cur_env = last.e

C18_WitnessOutermost ==
    /\ last.op = "__exit__" /\ withs = <<>> /\ cur_env = 0
    /\ dyn[last.e].token = NoToken

----------------------------------------------------------------------------
(* Properties of the * modifier (SpecStar).                                 *)

Unstarred(xs) == Len(SelectSeq(xs, LAMBDA x : ~x.star))
\* the child work list of the k-th work item of the file
ChildWorkOf(k) ==
    IF stat[SMain].work[k].kind = "ParentStatement"
    THEN stat[stat[SMain].work[k].child].work ELSE <<>>
\* the k-th statement without star of the source
RECURSIVE NthUnstarred(_, _)
NthUnstarred(xs, k) ==
    IF ~Head(xs).star THEN IF k = 1 THEN Head(xs) ELSE NthUnstarred(Tail(xs), k - 1)
    ELSE NthUnstarred(Tail(xs), k)

\* C19: a statement with the * modifier is dropped: lowering raises nothing,
\* the work list of the file holds one item for each statement without star
\* and none for the others, and the work list of a child block holds one
\* item for each child without star and none for the others.
C19_StarredStatementIsDropped ==
    last.op = "stmt_obj" =>
       /\ last.r = None
       /\ Len(stat[SMain].work) = Unstarred(SubSeq(src, 1, calls))
       /\ \A k \in 1..Len(stat[SMain].work) :
             /\ Len(ChildWorkOf(k))
                  = Len(SelectSeq(NthUnstarred(SubSeq(src, 1, calls), k).children,
                                  LAMBDA c : ~c))
             /\ \A j \in 1..Len(ChildWorkOf(k)) : ChildWorkOf(k)[j] # NoItem

----------------------------------------------------------------------------
(* Properties of include (SpecInclude).                                     *)

\* C20: the static pass ends for every input, also when the includes form
\* a cycle: it does not run into the limit of nested calls, and no file is
\* lowered a second time.
C20_IncludeCyclesEnd ==
    last.op = "Input" =>
       /\ last.r # Err("RecursionError")
       /\ \A i, j \in 1..Len(trace) : trace[i] = trace[j] => i = j

----------------------------------------------------------------------------
(* Properties of use (SpecUse).                                             *)

\* the files that file 1 uses, and the names a file defines at its top level
Used == {src[1][i].f : i \in {j \in 1..Len(src[1]) : src[1][j].k = "use"}}
Defines(file, n, kinds) == \E i \in 1..Len(src[file]) : src[file][i].k \in kinds /\ src[file][i].n = n

\* C21: after file 1 has used files, a variable or function that a used file
\* defines at its top level resolves from the scope of file 1, a name that
\* file 1 defines itself resolves to the definition of file 1, a name that
\* neither file 1 nor a used file defines does not resolve, and the work list
\* of file 1 holds the renderable statements of file 1 only; the static pass
\* does not reject the use statement.
C21_UseSplicesDefinitions ==
    /\ last.op = "Use" /\ Used # {} /\ last.r # Err("RecursionError") =>
          /\ (\E g \in Used : Defines(g, last.n, {"var", "fn"})) => ~IsErr(last.r)
          /\ Defines(1, last.n, {"var", "fn", "mod"}) => last.r.s = <<1>>
          /\ (\A g \in Used \cup {1} : ~Defines(g, last.n, {"var", "fn", "mod"}))
                => last.r = Err("KeyError")
          /\ stat[2].data["_e_children"]
                = Lst(SelectSeq([i \in 1..Len(src[1]) |->
                                   IF src[1][i].k = "obj" THEN <<1, i>> ELSE <<>>],
                                LAMBDA y : y # <<>>))
    /\ last.op = "StaticUse" /\ Used # {} => last.r # Err("RuntimeError")

----------------------------------------------------------------------------
(* Properties of process with preload files (SpecProcess).                  *)

\* the preload files whose binding of n the loop does not skip, and the
\* latest of a set of files
Accepted(n) == {i \in 1..Len(src) : src[i][n].def /\ (Underscore(n) => src[i][n].num)}
Latest(S) == CHOOSE i \in S : \A j \in S : j <= i
SameAt(d, e, n) == (n \in DOMAIN d <=> n \in DOMAIN e) /\ (n \in DOMAIN d => d[n] = e[n])
Injected(st, n) ==
    n \in DOMAIN st[SMain].funcs \cup DOMAIN st[SMain].mods \cup DOMAIN st[SMain].vars

\* C22 (amended): when process returns, each name that a preload file binds
\* to a callable, and that the loop does not skip, is bound in the function
\* table and in the module table of the main static scope to the callable of
\* the last such file, whatever built-in or source definition the name had,
\* and nothing is logged; the other names keep what they had in both tables.
\* A name that starts with an underscore is skipped unless it is bound to an
\* int or float: then it is injected, as a variable, or as function and
\* module if the value is callable as well.
C22_PreloadInjects ==
    [][last'.op = "process" /\ ~IsErr(last'.r) =>
          /\ trace' = trace
          /\ \A n \in PreNames :
                LET cal == {i \in Accepted(n) : src[i][n].c} IN
                /\ IF cal # {}
                   THEN /\ n \in DOMAIN stat'[SMain].funcs /\ n \in DOMAIN stat'[SMain].mods
                        /\ stat'[SMain].funcs[n] = HostFn(Latest(cal))
                        /\ stat'[SMain].mods[n] = HostMod(Latest(cal))
                   ELSE /\ SameAt(stat[SMain].funcs, stat'[SMain].funcs, n)
                        /\ SameAt(stat[SMain].mods, stat'[SMain].mods, n)
                /\ Underscore(n) /\ Accepted(n) = {} => ~Injected(stat', n)
                /\ Underscore(n) /\ Accepted(n) # {} => Injected(stat', n)]_vars

\* a preload file has replaced the built-in module cube and given the name
\* to a function as well, and its callable _g was left out
C22_Witness ==
    /\ last.op = "process" /\ ~IsErr(last.r)
    /\ \E i \in 1..Len(src) : src[i]["cube"].c /\ src[i]["_g"] = Defn(TRUE, FALSE)
    /\ StaticMod(SMain, "cube") # Builtin
    /\ "cube" \in DOMAIN stat[SMain].funcs
    /\ ~Injected(stat, "_g")

\* C22 as stated: no definition whose name starts with an underscore is
\* injected.
C22_NoUnderscoreInjected ==
    last.op = "process" /\ ~IsErr(last.r) =>
       \A n \in PreNames : Underscore(n) => ~Injected(stat, n)

----------------------------------------------------------------------------
(* Properties of $children (SpecChildren).                                  *)

\* C23: $children evaluated in the body of h, in the DynEnv of the call or of
\* a block inside the body, is the number of work items of the child block of
\* the statement that calls h, and 0 if that statement has no child block; at
\* top level, outside any module, it is 0; a value stored under $children
\* does not change this.
C23_ChildrenCountsChildBlock ==
    last.op = "var" /\ last.n = "$children" =>
       /\ last.e \in {ModEnv, NestEnv} =>
             last.r = Num(IF dyn[StmtEnv].child = 0 THEN 0
                          ELSE Len(stat[dyn[StmtEnv].child].work))
       /\ last.e = TopEnv => last.r = Num(0)

----------------------------------------------------------------------------
(* Properties of tracing (SpecTrace).                                       *)

\* the names printed so far for Shapes and for Axes other than Axis.X
Printed ==
    {n \in UNION {{trace[i].res} \cup {trace[i].names[j] : j \in 1..Len(trace[i].names)} :
                     i \in 1..Len(trace)} : src[n.o] \in {"Shape", "Axis"}}

\* C24: every name printed for a kernel object is o_<n>, the same object is
\* printed under the same name each time, and two objects never under the
\* same name.
C24_TraceNamesAreInterned ==
    \A a, b \in Printed :
       /\ a.k = "o_"
       /\ a.o = b.o => a = b
       /\ a.o # b.o => a.n # b.n

----------------------------------------------------------------------------
(* Properties of indexing (SpecIndex).                                      *)

\* the value the first suffix is applied to is no vector and no string
NonSequence == Primaries[src.x].t \in {"num", "bool", "None", "float"}

\* C25: an index applied to a number, a boolean or undef gives None and
\* raises nothing.
C25_IndexOfNonSequenceIsUndef ==
    last.op = "call" /\ NonSequence /\ Len(src.sfx) = 1 /\ src.sfx[1].len = 3 =>
       last.r.t = "None"

----------------------------------------------------------------------------
(* Properties of the comparison of test results (SpecTest).                 *)

\* the volume of the result called name, NoVolume if there is none
VolumeOf(name) ==
    IF \E i \in 1..Len(src.models) : src.models[i].n = name
    THEN src.models[CHOOSE i \in 1..Len(src.models) : src.models[i].n = name].v
    ELSE NoVolume

\* the interpreted shape has the volume x, within the tolerance
Same(x) == Abs(VolumeOf("parser") - x) < src.tolerance

\* the test of a model with shapes has passed and the interpreter gave one
Passed ==
    last.op = "_test" /\ last.r = None /\ ~src.numeric /\ VolumeOf("parser") # NoVolume

Reference ==
    IF src.preset # NoVolume THEN src.preset ELSE src.models[Len(src.models)].v

----------------------------------------------------------------------------
(* Properties of the values of variables (SpecCache).                       *)

\* the vars mp hold a value under name
Evaluated(mp, name) == vm[mp][name] # Absent /\ vm[mp][name] # Working

\* a lookup that has completed has left its value in the vars of its DynEnv
StoredAfterLookup ==
    last.op = "var" /\ ~IsErr(last.r) => vm[dyn[last.e].vars][last.n] = last.r

\* a lookup of a name the vars hold a value for, through any DynEnv with
\* these vars, returns that value, changes nothing and evaluates nothing (it
\* completes where no evaluation of a Variable could)
CacheAnswers ==
    \A e \in 1..Len(dyn), name \in DynNames :
       Evaluated(dyn[e].vars, name) =>
          DynVar(Machine, e, name, 0) = Ret(Machine, vm[dyn[e].vars][name])

\* a value the vars hold stays
ValuesKept ==
    \A mp \in 1..Len(vm), name \in DynNames :
       Evaluated(mp, name) => vm'[mp][name] = vm[mp][name]

----------------------------------------------------------------------------
(* Properties of the static scopes during the dynamic pass (SpecFor).       *)

----------------------------------------------------------------------------
(* Properties of the if statement (SpecIf).                                 *)

\* how often child i of the node was evaluated
Evaluations(i) == Cardinality({k \in 1..Len(trace) : trace[k] = <<i, 0>>})

\* Eval has evaluated the statement and its guard gave a value
GuardDone ==
    last.op = "ifelse_statement" /\ last.n = "Eval" /\ ~IsErr(Guards[src.guard])

----------------------------------------------------------------------------
(* Properties of failed lookups (SpecCache).                                *)

\* the step is a lookup that raises
FailedLookup == last'.op = "var" /\ IsErr(last'.r)

\* no vars hold the marker _working between two operations
NoMarker ==
    \A mp \in 1..Len(vm), name \in DynNames : vm[mp][name] # Working

\* C30: a lookup that raises leaves the vars of every DynEnv as they were
\* before it, without the marker, so that no later lookup of the name finds
\* the marker of the failed one.
C30_FailedLookupRestoresVars ==
    [][FailedLookup => vm' = vm]_vars /\ []NoMarker

\* C30, amended: a lookup that raises leaves the vars without an entry for
\* the name, as before it, and without any marker; the values of other names
\* whose lookup completed during the failed evaluation stay in the vars.
C30_FailedLookupRemovesMarker ==
    /\ [][FailedLookup =>
            /\ vm'[dyn[last'.e].vars][last'.n] = Absent
            /\ vm[dyn[last'.e].vars][last'.n] = Absent
            /\ \A mp \in 1..Len(vm), name \in DynNames :
                  vm'[mp][name] # vm[mp][name] =>
                     vm[mp][name] = Absent /\ vm'[mp][name] \notin {Absent, Working}]_vars
    /\ []NoMarker

\* the lookup of a through the DynEnv of the call of h has raised TypeError
\* after the lookup of $x, which a is computed from, had completed there
C30_Witness ==
    /\ last.op = "var" /\ last.e = ModEnv /\ last.n = "a"
    /\ last.r = Err("TypeError")
    /\ vm[dyn[ModEnv].vars]["a"] = Absent
    /\ vm[dyn[ModEnv].vars]["$x"] = Lst(<<>>)

====
